---- MODULE Spec2Model ----
(***************************************************************************)
(* Phoenix trading bot: the execution / risk / position lifecycle engine.  *)
(*                                                                         *)
(* One module, seventeen specifications over one set of variables:        *)
(*   SpecRate   - the sliding-window rate limiters                          *)
(*   SpecStore  - PositionManager: the position map and the                *)
(*                temp-file-then-rename persistence                        *)
(*   SpecHold   - PositionManager: the sl-hold map, its expiry against the *)
(*                clock and its persistence                                *)
(*   SpecRisk   - RiskManager.get_trade_amount and the weight cap          *)
(*   SpecEngine - ExecutionEngine: buy / sell / take-profit / DCA against  *)
(*                the exchange client with its retry wrapper                *)
(*   SpecBreaker - CircuitBreaker: trip conditions, cooldown and reset     *)
(*   SpecApproval - the sell approvals of SEMI mode: the signal thread and *)
(*                the Telegram thread inside _request_sell_approval and    *)
(*                the approve / reject callbacks                           *)
(*   SpecSync   - PositionManager.sync_with_exchange against the account   *)
(*   SpecDca    - the sweep driven down the averaging-in levels             *)
(*   SpecDaily  - RiskManager.check_daily_loss against the clock            *)
(*   SpecGuard  - RiskManager: drawdown and loss streak                     *)
(*   SpecRetry  - retry_with_backoff, attempt by attempt                    *)
(*   SpecCache  - CacheManager under several threads                        *)
(*   SpecSweep  - check_positions as a loop over the position map           *)
(*   SpecExpiry - the sell approvals with the expiry timer, fair            *)
(*   SpecAlias  - the records handed out by get_position, step by step      *)
(*   SpecLocks  - the lock sections of the store, the breaker, the limiter  *)
(*                and the risk manager under three threads                  *)
(* Each specification moves only its own variables; the clock is shared.   *)
(***************************************************************************)
EXTENDS Integers, Sequences, FiniteSets, TLC

VARIABLES
    now,          \* the wall clock, in ticks (time.time() / datetime.now())
    rlKind,       \* which limiter class this run exercises
    rlCalls,      \* RateLimiter.calls / APIRateLimiter.calls: deque of timestamps
    rlLock,       \* holder of the limiter lock across a blocking sleep, or NoThread
    rlPc,         \* per thread: position inside acquire / wait_if_needed
    rlWaitArg,    \* per thread: the wait argument of the call in progress / last call
    rlWake,       \* per thread: earliest time the current sleep may end
    rlRet,        \* per thread: result of the last completed call
    rlGranted,    \* history: number of grants recorded at each timestamp
    positions,    \* PositionManager.positions: symbol -> record, or NoPos
    sl_hold_until,\* PositionManager.sl_hold_until: symbol -> expiry, or NoHold
    fs,           \* the file system: content of the durable file and of the .tmp file
    stPc,         \* position of the store operation in progress inside _save ("idle": lock free)
    savePre,      \* history: content of the durable file when the current save began
    crashAt,      \* history: where the last crash hit ("none": no crash since the last operation)
    stLast,       \* history: the last store operation and its result
    fills,        \* history: per symbol, the fills recorded since open_position
    rmEnv,        \* what RiskManager reads: balance, holding of the symbol, price, configuration
    rmOut,        \* history: the last get_trade_amount call and its result
    exBal,        \* the exchange: the account's balance of each coin
    exBuys,       \* the exchange: the number of buy orders it has accepted
    sl_pending,   \* ExecutionEngine.sl_pending_symbols
    approval_queue, \* TelegramBot.approval_queue: per symbol the KRW amount of the pending buy, or 0
    egCfg,        \* Config.MODE and Config.AGGRESSIVE_MODE, and the funds of the account
    egLast,       \* history: the last engine handler call and what it did
    tpFired,      \* history: per symbol and take-profit level, the sell orders the
                  \* exchange accepted for it since the position was opened (counted to 2)
    cb,           \* CircuitBreaker: counters, trip state, last_reset_date
    cbCfg,        \* CircuitBreaker: the thresholds given to __init__
    cbLast,       \* history: the last breaker call, its result and the state it found
    tgSell,       \* TelegramBot.approval_queue: the sell requests, by request id
    apPc,         \* per thread: position inside _request_sell_approval / a callback
    apLast,       \* history: the last completed sell-approval handler
    syLast,       \* history: the report of the last sync_with_exchange call
    rg,           \* RiskManager: daily_start_value, daily_date, peak_value, loss_streak
    rgCfg,        \* RiskManager.aggressive and the time zone of the process
    rgHist,       \* history: the equity at the first daily-loss check of the local date,
                  \* the highest equity a drawdown check has read, the run of losing results
    rgLast,       \* history: the last risk check, its result and the equity it read
    rt,           \* retry_with_backoff: the call in progress (attempt, delay, position)
    rtHist,       \* history: the attempts and the waits of that call
    ch,           \* CacheManager: _cache and _stats
    chLast,       \* history: the last completed cache call and the thread that made it
    sw,           \* check_positions: the sweep in progress, and what it has done so far
    al,           \* the position record a caller of get_position / get_all_positions holds
    lk            \* the four locks: their holders and what each thread has yet to do

rateVars == <<rlKind, rlCalls, rlLock, rlPc, rlWaitArg, rlWake, rlRet, rlGranted>>
storeVars == <<positions, sl_hold_until, fs, stPc, savePre, crashAt, stLast, fills>>

riskVars == <<rmEnv, rmOut>>
engineVars == <<exBal, exBuys, sl_pending, approval_queue, egCfg, egLast, tpFired>>
breakerVars == <<cb, cbCfg, cbLast>>
approvalVars == <<tgSell, apPc, apLast>>
syncVars == <<syLast>>
guardVars == <<rg, rgCfg, rgHist, rgLast>>
retryVars == <<rt, rtHist>>
cacheVars == <<ch, chLast>>
sweepVars == <<sw>>
aliasVars == <<al>>
lockVars == <<lk>>
moreVars == <<sweepVars, aliasVars, lockVars>>

nonRateVars == <<storeVars, riskVars, engineVars, breakerVars, approvalVars, syncVars,
          guardVars, retryVars, cacheVars, moreVars>>
nonStoreVars == <<rateVars, riskVars, engineVars, breakerVars, approvalVars, syncVars,
          guardVars, retryVars, cacheVars, moreVars>>
nonRiskVars == <<rateVars, storeVars, engineVars, breakerVars, approvalVars, syncVars,
          guardVars, retryVars, cacheVars, moreVars>>
nonEngineVars == <<rateVars, riskVars, breakerVars, approvalVars, syncVars,
          guardVars, retryVars, cacheVars, moreVars>>
nonBreakerVars == <<rateVars, storeVars, riskVars, engineVars, approvalVars, syncVars,
          guardVars, retryVars, cacheVars, moreVars>>

vars == <<now, rateVars, storeVars, riskVars, engineVars, breakerVars, approvalVars,
          syncVars,
          guardVars, retryVars, cacheVars, moreVars>>

(***************************************************************************)
(* Bounds of the model                                                     *)
(***************************************************************************)
MaxTime == 5
MaxCalls == 2
WindowSec == 2

(***************************************************************************)
(* Helpers                                                                 *)
(***************************************************************************)
Max(a, b) == IF a >= b THEN a ELSE b
Min(a, b) == IF a <= b THEN a ELSE b

RECURSIVE SumOver(_, _)
SumOver(f, S) ==
    IF S = {} THEN 0
    ELSE LET x == CHOOSE y \in S : TRUE IN f[x] + SumOver(f, S \ {x})

(***************************************************************************)
(* The clock                                                               *)
(***************************************************************************)
Tick ==
    /\ now < MaxTime
    /\ now' = now + 1
    /\ UNCHANGED <<rateVars, storeVars, riskVars, engineVars, breakerVars, approvalVars,
                   syncVars,
          guardVars, retryVars, cacheVars, moreVars>>

(***************************************************************************)
(* Rate limiters                                                           *)
(*   "RateLimiter"    : bot/api/rate_limiter.py and bot/api/bithumb_ccxt_api.py *)
(*                      (the two classes have the same acquire)            *)
(*   "APIRateLimiter" : bot/api/api_cache.py                               *)
(* The clock is read at whole ticks; the 0.1 s slack added to a sleep      *)
(* makes the sleeper runnable one tick after the computed wait.            *)
(***************************************************************************)
Threads == {"t1", "t2"}
NoThread == "none"
LimiterKinds == {"RateLimiter", "APIRateLimiter"}
SleepSlack == 1

\* _cleanup_old_calls: while calls and calls[0] < now - per_seconds: popleft()
RECURSIVE PurgeStrict(_, _)
PurgeStrict(calls, t) ==
    IF calls # <<>> /\ Head(calls) < t - WindowSec
    THEN PurgeStrict(Tail(calls), t)
    ELSE calls

RECURSIVE PurgeInclusive(_, _)
PurgeInclusive(calls, t) ==
    IF calls # <<>> /\ Head(calls) <= t - WindowSec
    THEN PurgeInclusive(Tail(calls), t)
    ELSE calls

Purge(calls, t) == PurgeStrict(calls, t)

HasRoom(calls) == Len(calls) < MaxCalls

Grant(t) ==
    /\ rlCalls' = Append(Purge(rlCalls, now), now)
    /\ rlGranted' = [rlGranted EXCEPT ![now] = @ + 1]
    /\ rlRet' = [rlRet EXCEPT ![t] = "true"]
    /\ rlPc' = [rlPc EXCEPT ![t] = "done"]

\* RateLimiter.acquire(wait): the locked section, then the wait=False return
RLAcquire(t, wait) ==
    /\ rlKind = "RateLimiter"
    /\ rlPc[t] = "idle"
    /\ rlLock = NoThread
    /\ rlWaitArg' = [rlWaitArg EXCEPT ![t] = wait]
    /\ IF HasRoom(Purge(rlCalls, now))
       THEN Grant(t)
       ELSE /\ rlCalls' = Purge(rlCalls, now)
            /\ rlGranted' = rlGranted
            /\ IF wait
               THEN /\ rlPc' = [rlPc EXCEPT ![t] = "read_oldest"]
                    /\ rlRet' = rlRet
               ELSE /\ rlPc' = [rlPc EXCEPT ![t] = "done"]
                    /\ rlRet' = [rlRet EXCEPT ![t] = "false"]
    /\ UNCHANGED <<nonRateVars, now, rlKind, rlLock, rlWake>>

\* wait_time = self.calls[0] + self.per_seconds - time.time(), read without the lock
RLReadOldest(t) ==
    /\ rlPc[t] = "read_oldest"
    /\ IF rlCalls = <<>>
       THEN /\ rlPc' = [rlPc EXCEPT ![t] = "done"]
            /\ rlRet' = [rlRet EXCEPT ![t] = "IndexError"]
            /\ rlWake' = rlWake
       ELSE LET wait_time == Head(rlCalls) + WindowSec - now IN
            /\ rlPc' = [rlPc EXCEPT ![t] = "retry"]
            /\ rlWake' = [rlWake EXCEPT ![t] =
                            IF wait_time > 0 THEN now + wait_time + SleepSlack ELSE now]
            /\ rlRet' = rlRet
    /\ UNCHANGED <<nonRateVars, now, rlKind, rlCalls, rlLock, rlWaitArg, rlGranted>>

\* after the sleep: return self.acquire(wait=False)
RLRetry(t) ==
    /\ rlPc[t] = "retry"
    /\ now >= rlWake[t]
    /\ rlLock = NoThread
    /\ IF HasRoom(Purge(rlCalls, now))
       THEN Grant(t)
       ELSE /\ rlCalls' = Purge(rlCalls, now)
            /\ rlGranted' = rlGranted
            /\ rlPc' = [rlPc EXCEPT ![t] = "done"]
            /\ rlRet' = [rlRet EXCEPT ![t] = "false"]
    /\ UNCHANGED <<nonRateVars, now, rlKind, rlLock, rlWaitArg, rlWake>>

\* RateLimiter.get_remaining: purge only
RLGetRemaining(t) ==
    /\ rlKind = "RateLimiter"
    /\ rlPc[t] = "idle"
    /\ rlLock = NoThread
    /\ rlCalls' = Purge(rlCalls, now)
    /\ UNCHANGED <<nonRateVars, now, rlKind, rlLock, rlPc, rlWaitArg, rlWake, rlRet, rlGranted>>

\* APIRateLimiter.acquire(): never blocks
ARLAcquire(t) ==
    /\ rlKind = "APIRateLimiter"
    /\ rlPc[t] = "idle"
    /\ rlLock = NoThread
    /\ rlWaitArg' = [rlWaitArg EXCEPT ![t] = FALSE]
    /\ IF HasRoom(Purge(rlCalls, now))
       THEN Grant(t)
       ELSE /\ rlCalls' = Purge(rlCalls, now)
            /\ rlGranted' = rlGranted
            /\ rlPc' = [rlPc EXCEPT ![t] = "done"]
            /\ rlRet' = [rlRet EXCEPT ![t] = "false"]
    /\ UNCHANGED <<nonRateVars, now, rlKind, rlLock, rlWake>>

\* APIRateLimiter.wait_if_needed(): purge, record if room, else sleep holding the lock
ARLWaitIfNeeded(t) ==
    /\ rlKind = "APIRateLimiter"
    /\ rlPc[t] = "idle"
    /\ rlLock = NoThread
    /\ rlWaitArg' = [rlWaitArg EXCEPT ![t] = TRUE]
    /\ IF HasRoom(Purge(rlCalls, now))
       THEN Grant(t) /\ UNCHANGED <<rlLock, rlWake>>
       ELSE LET purged == Purge(rlCalls, now)
                wait_time == Head(purged) + WindowSec - now + SleepSlack IN
            /\ rlCalls' = purged
            /\ rlGranted' = rlGranted
            /\ rlRet' = rlRet
            /\ rlLock' = t
            /\ rlPc' = [rlPc EXCEPT ![t] = "locked_sleep"]
            /\ rlWake' = [rlWake EXCEPT ![t] = IF wait_time > 0 THEN now + wait_time ELSE now]
    /\ UNCHANGED <<nonRateVars, now, rlKind>>

\* ... time.sleep(wait_time); self.calls.append(time.time()) -- no purge, no test
ARLWakeAppend(t) ==
    /\ rlPc[t] = "locked_sleep"
    /\ rlLock = t
    /\ now >= rlWake[t]
    /\ rlCalls' = Append(rlCalls, now)
    /\ rlGranted' = [rlGranted EXCEPT ![now] = @ + 1]
    /\ rlRet' = [rlRet EXCEPT ![t] = "true"]
    /\ rlPc' = [rlPc EXCEPT ![t] = "done"]
    /\ rlLock' = NoThread
    /\ UNCHANGED <<nonRateVars, now, rlKind, rlWaitArg, rlWake>>

\* the caller takes the result; the thread is free for its next call
RLReturn(t) ==
    /\ rlPc[t] = "done"
    /\ rlPc' = [rlPc EXCEPT ![t] = "idle"]
    /\ rlRet' = [rlRet EXCEPT ![t] = "none"]
    /\ rlWaitArg' = [rlWaitArg EXCEPT ![t] = FALSE]
    /\ rlWake' = [rlWake EXCEPT ![t] = 0]
    /\ UNCHANGED <<nonRateVars, now, rlKind, rlCalls, rlLock, rlGranted>>

RateInit(kind) ==
    /\ rlKind = kind
    /\ rlCalls = <<>>
    /\ rlLock = NoThread
    /\ rlPc = [t \in Threads |-> "idle"]
    /\ rlWaitArg = [t \in Threads |-> FALSE]
    /\ rlWake = [t \in Threads |-> 0]
    /\ rlRet = [t \in Threads |-> "none"]
    /\ rlGranted = [x \in 0..MaxTime |-> 0]

NextRate ==
    \/ Tick
    \/ \E t \in Threads, wait \in BOOLEAN : RLAcquire(t, wait)
    \/ \E t \in Threads : RLReadOldest(t)
    \/ \E t \in Threads : RLRetry(t)
    \/ \E t \in Threads : RLGetRemaining(t)
    \/ \E t \in Threads : ARLAcquire(t)
    \/ \E t \in Threads : ARLWaitIfNeeded(t)
    \/ \E t \in Threads : ARLWakeAppend(t)
    \/ \E t \in Threads : RLReturn(t)


(***************************************************************************)
(* Exact rational arithmetic for prices (the code computes in floats; the  *)
(* model keeps the exact value, so a weighted average is the true one)     *)
(***************************************************************************)
RECURSIVE GCD(_, _)
GCD(a, b) == IF b = 0 THEN a ELSE GCD(b, a % b)

Rat(n, d) == LET g == GCD(IF n < 0 THEN -n ELSE n, d) IN
             IF g = 0 THEN [n |-> 0, d |-> 1] ELSE [n |-> n \div g, d |-> d \div g]
RatInt(x) == [n |-> x, d |-> 1]
RatLe(a, b) == a.n * b.d <= b.n * a.d
RatLt(a, b) == a.n * b.d < b.n * a.d
RatMulInt(a, k) == Rat(a.n * k, a.d)
RatMul(a, b) == Rat(a.n * b.n, a.d * b.d)
RatAdd(a, b) == Rat(a.n * b.d + b.n * a.d, a.d * b.d)
RatSub(a, b) == Rat(a.n * b.d - b.n * a.d, a.d * b.d)
RatMin(a, b) == IF RatLe(a, b) THEN a ELSE b
RatMax(a, b) == IF RatLe(a, b) THEN b ELSE a

(***************************************************************************)
(* Position Store: bot/core/position_manager.py                            *)
(***************************************************************************)
Symbols == {"XRP/KRW", "SOL/KRW"}
NoPos == [none |-> TRUE]
\* values a field of positions.json can hold besides a number: null (or no such
\* key), a text that is no number, NaN; and a record that is no JSON object
PyNone == [py |-> "None"]
PyText == [py |-> "str"]
PyNaN == [py |-> "nan"]
NotADict == [py |-> "list"]
IsNumber(value) == "n" \in DOMAIN value

\* ExecutionEngine._safe_float
SafeFloat(value, default) == IF IsNumber(value) THEN value ELSE default
NoHold == -1
NoFile == [file |-> "absent"]
Partial == [file |-> "partial"]   \* a file whose JSON text is cut short
\* the fills (quantity in quantity steps, price in price ticks) the store is driven with
FillInputs == {[qty |-> 10, price |-> 100], [qty |-> 5, price |-> 70]}
HoldHours == {1, 2}           \* set_sl_hold(hours), in clock ticks
MaxStoreDca == 2              \* add_dca calls per position explored by SpecStore

\* open_position: trailing is None -> the default record, disabled
DefaultTrailing(price) ==
    [enabled |-> FALSE, offset |-> 0, highest_price |-> RatInt(price)]

\* open_position: the record new_pos (audit-only fields left out)
NewPos(qty, price, ai_tp, ai_sl, strat_tp, strat_sl, trailing, tp_levels) ==
    [ qty |-> qty,
      entry_price |-> RatInt(price),
      tp |-> strat_tp,
      sl |-> strat_sl,
      ai_tp |-> ai_tp,
      ai_sl |-> ai_sl,
      dca_stage |-> 0,
      dca_history |-> <<>>,
      initial_qty |-> qty,
      tp_levels |-> tp_levels,
      trailing |-> trailing,
      synced |-> FALSE ]

\* open_position: self.positions[symbol] = new_pos, whatever was there
OpenPositionMap(pm, symbol, new_pos) == [pm EXCEPT ![symbol] = new_pos]

\* add_dca: the new average price
DcaAverageUnweighted(old_qty, old_entry, qty, price) ==
    Rat(old_entry.n + price * old_entry.d, 2 * old_entry.d)

DcaAverage(old_qty, old_entry, qty, price) ==
    Rat(old_qty * old_entry.n + qty * price * old_entry.d, old_entry.d * (old_qty + qty))

\* add_dca: the updated record
AddDcaRec(pos, qty, price) ==
    [pos EXCEPT !.qty = pos.qty + qty,
                !.entry_price = DcaAverage(pos.qty, pos.entry_price, qty, price),
                !.dca_stage = pos.dca_stage + 1,
                !.dca_history = Append(pos.dca_history, [qty |-> qty, price |-> price])]

\* _save: save_data; datetime.isoformat() of every hold
IsoFormat(t) == [iso |-> t]
FromIsoFormat(x) == x.iso
Snapshot(pm, holds) ==
    [positions |-> pm,
     sl_hold_until |-> [s \in {x \in Symbols : holds[x] # NoHold} |-> IsoFormat(holds[s])]]

EmptyPositions == [s \in Symbols |-> NoPos]
EmptyHolds == [s \in Symbols |-> NoHold]

\* _load: no file -> {}, JSON error -> {}, else data["positions"]
Load(content) ==
    IF content = NoFile \/ content = Partial THEN EmptyPositions ELSE content.positions

\* _load_sl_hold: no file -> {}, error -> {}, else fromisoformat of every entry
LoadSlHold(content) ==
    IF content = NoFile \/ content = Partial THEN EmptyHolds
    ELSE [s \in Symbols |->
            IF s \in DOMAIN content.sl_hold_until
            THEN FromIsoFormat(content.sl_hold_until[s]) ELSE NoHold]

\* _save: tmp = self.filename + ".tmp"
TmpNameSameFile == "durable"
TmpName == "tmp"

StoreIdle == stPc = "idle"

\* with self.lock: <mutation>; self._save() -- the mutation, then _save step by step
BeginSave(op, symbol, ret) ==
    /\ stPc' = "save_open"
    /\ savePre' = fs.durable
    /\ crashAt' = "none"
    /\ stLast' = [op |-> op, ret |-> ret]
    /\ fs' = fs

\* a store operation that returns without calling _save
NoSave(op, symbol, ret) ==
    /\ stPc' = "idle"
    /\ savePre' = savePre
    /\ crashAt' = "none"
    /\ stLast' = [op |-> op, ret |-> ret]
    /\ fs' = fs

\* _save: open(tmp, "w") truncates the file
SaveOpenTmp ==
    /\ stPc = "save_open"
    /\ fs' = [fs EXCEPT ![TmpName] = Partial]
    /\ stPc' = "save_dump"
    /\ UNCHANGED <<positions, sl_hold_until, savePre, crashAt, stLast, fills>>
    /\ UNCHANGED <<now, nonStoreVars>>

\* _save: json.dump(save_data, f) and close
SaveDump ==
    /\ stPc = "save_dump"
    /\ fs' = [fs EXCEPT ![TmpName] = Snapshot(positions, sl_hold_until)]
    /\ stPc' = "save_replace"
    /\ UNCHANGED <<positions, sl_hold_until, savePre, crashAt, stLast, fills>>
    /\ UNCHANGED <<now, nonStoreVars>>

\* _save: os.replace(tmp, self.filename), then the lock is released
SaveReplace ==
    /\ stPc = "save_replace"
    /\ fs' = IF TmpName = "durable" THEN fs
             ELSE [fs EXCEPT !["durable"] = fs[TmpName], ![TmpName] = NoFile]
    /\ stPc' = "idle"
    /\ savePre' = fs'.durable
    /\ UNCHANGED <<positions, sl_hold_until, crashAt, stLast, fills>>
    /\ UNCHANGED <<now, nonStoreVars>>

\* the process dies and is restarted: __init__ runs _load and _load_sl_hold
Crash ==
    /\ crashAt = "none"
    /\ crashAt' = stPc
    /\ stPc' = "idle"
    /\ positions' = Load(fs.durable)
    /\ sl_hold_until' = LoadSlHold(fs.durable)
    /\ fills' = [s \in Symbols |->
                    IF Load(fs.durable)[s] = positions[s] THEN fills[s] ELSE <<>>]
    /\ stLast' = [op |-> "restart", ret |-> TRUE]
    /\ UNCHANGED <<fs, savePre>>
    /\ UNCHANGED <<now, nonStoreVars>>

StOpenPosition(symbol, qty, price) ==
    /\ StoreIdle
    /\ positions' = OpenPositionMap(positions, symbol,
                        NewPos(qty, price, 0, 0, 0, 0, DefaultTrailing(price), <<>>))
    /\ fills' = [fills EXCEPT ![symbol] = <<[qty |-> qty, price |-> price]>>]
    /\ BeginSave("open_position", symbol, TRUE)
    /\ UNCHANGED <<sl_hold_until, now, nonStoreVars>>

StAddDca(symbol, qty, price) ==
    /\ StoreIdle
    /\ IF positions[symbol] = NoPos
       THEN /\ NoSave("add_dca", symbol, FALSE)
            /\ UNCHANGED <<positions, fills>>
       ELSE /\ positions[symbol].dca_stage < MaxStoreDca
            /\ positions' = [positions EXCEPT ![symbol] = AddDcaRec(@, qty, price)]
            /\ fills' = [fills EXCEPT ![symbol] =
                            IF @ = <<>> THEN @ ELSE Append(@, [qty |-> qty, price |-> price])]
            /\ BeginSave("add_dca", symbol, TRUE)
    /\ UNCHANGED <<sl_hold_until, now, nonStoreVars>>

\* close_position writing the file also when the symbol has no position
StClosePositionAlwaysSaves(symbol) ==
    /\ StoreIdle
    /\ IF positions[symbol] = NoPos
       THEN /\ BeginSave("close_position", symbol, FALSE)
            /\ UNCHANGED <<positions, fills>>
       ELSE /\ positions' = [positions EXCEPT ![symbol] = NoPos]
            /\ fills' = [fills EXCEPT ![symbol] = <<>>]
            /\ BeginSave("close_position", symbol, TRUE)
    /\ UNCHANGED <<sl_hold_until, now, nonStoreVars>>

StClosePosition(symbol) ==
    /\ StoreIdle
    /\ IF positions[symbol] = NoPos
       THEN /\ NoSave("close_position", symbol, FALSE)
            /\ UNCHANGED <<positions, fills>>
       ELSE /\ positions' = [positions EXCEPT ![symbol] = NoPos]
            /\ fills' = [fills EXCEPT ![symbol] = <<>>]
            /\ BeginSave("close_position", symbol, TRUE)
    /\ UNCHANGED <<sl_hold_until, now, nonStoreVars>>

StSetSlHold(symbol, hours) ==
    /\ StoreIdle
    /\ sl_hold_until' = [sl_hold_until EXCEPT ![symbol] = now + hours]
    /\ BeginSave("set_sl_hold", symbol, TRUE)
    /\ UNCHANGED <<positions, fills, now, nonStoreVars>>

\* is_sl_held with the expiry itself still counted as held
StIsSlHeldInclusive(symbol) ==
    /\ StoreIdle
    /\ IF sl_hold_until[symbol] = NoHold
       THEN /\ NoSave("is_sl_held", symbol, FALSE)
            /\ UNCHANGED sl_hold_until
       ELSE IF now > sl_hold_until[symbol]
            THEN /\ sl_hold_until' = [sl_hold_until EXCEPT ![symbol] = NoHold]
                 /\ BeginSave("is_sl_held", symbol, FALSE)
            ELSE /\ NoSave("is_sl_held", symbol, TRUE)
                 /\ UNCHANGED sl_hold_until
    /\ UNCHANGED <<positions, fills, now, nonStoreVars>>

\* is_sl_held: an elapsed hold is deleted and the state saved
StIsSlHeld(symbol) ==
    /\ StoreIdle
    /\ IF sl_hold_until[symbol] = NoHold
       THEN /\ NoSave("is_sl_held", symbol, FALSE)
            /\ UNCHANGED sl_hold_until
       ELSE IF now >= sl_hold_until[symbol]
            THEN /\ sl_hold_until' = [sl_hold_until EXCEPT ![symbol] = NoHold]
                 /\ BeginSave("is_sl_held", symbol, FALSE)
            ELSE /\ NoSave("is_sl_held", symbol, TRUE)
                 /\ UNCHANGED sl_hold_until
    /\ UNCHANGED <<positions, fills, now, nonStoreVars>>

StClearSlHold(symbol) ==
    /\ StoreIdle
    /\ IF sl_hold_until[symbol] # NoHold
       THEN /\ sl_hold_until' = [sl_hold_until EXCEPT ![symbol] = NoHold]
            /\ BeginSave("clear_sl_hold", symbol, TRUE)
       ELSE /\ NoSave("clear_sl_hold", symbol, TRUE)
            /\ UNCHANGED sl_hold_until
    /\ UNCHANGED <<positions, fills, now, nonStoreVars>>

\* get_sl_hold_remaining: an elapsed hold is deleted; _save is not called
StGetSlHoldRemaining(symbol) ==
    /\ StoreIdle
    /\ sl_hold_until' =
          IF sl_hold_until[symbol] # NoHold /\ sl_hold_until[symbol] - now <= 0
          THEN [sl_hold_until EXCEPT ![symbol] = NoHold]
          ELSE sl_hold_until
    /\ NoSave("get_sl_hold_remaining", symbol,
              sl_hold_until[symbol] # NoHold /\ sl_hold_until[symbol] - now > 0)
    /\ UNCHANGED <<positions, fills, now, nonStoreVars>>

\* get_all_sl_holds: every elapsed hold is deleted; _save is not called
StGetAllSlHolds ==
    /\ StoreIdle
    /\ sl_hold_until' = [s \in Symbols |->
          IF sl_hold_until[s] # NoHold /\ now >= sl_hold_until[s]
          THEN NoHold ELSE sl_hold_until[s]]
    /\ NoSave("get_all_sl_holds", CHOOSE s \in Symbols : TRUE, TRUE)
    /\ UNCHANGED <<positions, fills, now, nonStoreVars>>

StoreInit ==
    /\ positions = EmptyPositions
    /\ sl_hold_until = EmptyHolds
    /\ fs = [durable |-> NoFile, tmp |-> NoFile]
    /\ stPc = "idle"
    /\ savePre = NoFile
    /\ crashAt = "none"
    /\ stLast = [op |-> "none", ret |-> TRUE]
    /\ fills = [s \in Symbols |-> <<>>]

NextStore ==
    \/ SaveOpenTmp
    \/ SaveDump
    \/ SaveReplace
    \/ Crash
    \/ \E s \in Symbols, f \in FillInputs : StOpenPosition(s, f.qty, f.price)
    \/ \E s \in Symbols, f \in FillInputs : StAddDca(s, f.qty, f.price)
    \/ \E s \in Symbols : StClosePosition(s)

NextHold ==
    \/ Tick
    \/ SaveOpenTmp
    \/ SaveDump
    \/ SaveReplace
    \/ Crash
    \/ \E s \in Symbols, h \in HoldHours : StSetSlHold(s, h)
    \/ \E s \in Symbols : StIsSlHeld(s)
    \/ \E s \in Symbols : StClearSlHold(s)
    \/ \E s \in Symbols : StGetSlHoldRemaining(s)
    \/ StGetAllSlHolds

(***************************************************************************)
(* Configuration: config.py (amounts in KRW)                               *)
(***************************************************************************)
BASE_CAPITAL == 100000
CAPITAL_SAFETY_MARGIN == Rat(95, 100)
MIN_ORDER_AMOUNT == 5000
POSITION_WEIGHT_CAP == Rat(55, 100)
MAX_DCA_COUNT == 2

(***************************************************************************)
(* Risk Manager: bot/core/risk_manager.py                                  *)
(* A price lookup that fails returns None; "if price:" treats None and 0   *)
(* alike, so the model writes a failed lookup as price 0.                  *)
(***************************************************************************)
NoCall == [none |-> TRUE]

\* _fetch_price: the price, or None when the feed and the ticker both fail
FetchPrice(env, ok) == IF ok THEN env.price ELSE 0

\* calculate_positions_value: positions whose price lookup fails count as 0
CalculatePositionsValue(env, ok) ==
    IF env.qty > 0 /\ FetchPrice(env, ok) # 0 THEN env.qty * FetchPrice(env, ok) ELSE 0

\* get_total_capital
GetTotalCapital(env, ok) ==
    IF ~env.realtime THEN RatInt(BASE_CAPITAL)
    ELSE RatMax(RatMul(RatInt(env.krw_total + CalculatePositionsValue(env, ok)),
                       CAPITAL_SAFETY_MARGIN),
                RatInt(MIN_ORDER_AMOUNT * 10))

\* get_available_krw
GetAvailableKrw(env) == env.krw_free

\* check_position_weight_cap: the value of the holding
CurrentValue(env, ok) ==
    IF env.qty > 0 /\ FetchPrice(env, ok) # 0 THEN env.qty * FetchPrice(env, ok) ELSE 0

\* check_position_weight_cap(symbol, additional_krw)
CheckPositionWeightCap(env, additional_krw, okCapital, okPrice) ==
    LET total_capital == GetTotalCapital(env, okCapital)
        current_value == RatInt(CurrentValue(env, okPrice))
        max_cap == RatMul(POSITION_WEIGHT_CAP, total_capital)
    IN IF RatLe(total_capital, RatInt(0))
       THEN [allowed |-> FALSE, max_allowed_krw |-> RatInt(0)]
       ELSE [allowed |-> RatLe(RatAdd(current_value, additional_krw), max_cap),
             max_allowed_krw |-> RatMax(RatInt(0), RatSub(max_cap, current_value))]

\* check_dca_limit
CheckDcaLimit(env) == IF env.qty = 0 THEN TRUE ELSE MAX_DCA_COUNT - env.dca_stage > 0

\* _get_confidence_multiplier (ai_confidence in percent)
ConfidenceMultiplier(ai_confidence) ==
    IF ai_confidence >= 85 THEN Rat(15, 10)
    ELSE IF ai_confidence >= 70 THEN Rat(12, 10)
    ELSE IF ai_confidence >= 60 THEN RatInt(1)
    ELSE Rat(7, 10)

\* get_trade_amount, step 3: the market risk level (in percent)
GlobalRiskMultiplier(env, risk) ==
    IF ~risk.on THEN RatInt(1)
    ELSE IF risk.level > 70 THEN Rat(4, 10)
    ELSE IF risk.level > 50 THEN Rat(7, 10)
    ELSE IF env.aggressive THEN Rat(13, 10)
    ELSE RatInt(1)

\* get_trade_amount(symbol, pf_weight, is_dca, btc_mode, time_config, ai_confidence);
\* ok = <<price lookup inside the first get_total_capital, inside the second,
\*        inside check_position_weight_cap>>
GetTradeAmount(env, a, ok) ==
    LET total_capital == GetTotalCapital(env, ok[1])
        free_krw == GetAvailableKrw(env)
        t1 == RatMul(total_capital, a.pf_weight)
        t2 == IF env.aggressive THEN RatMul(t1, Rat(14, 10)) ELSE t1
        t3 == RatMul(t2, GlobalRiskMultiplier(env, a.risk))
        t4 == IF a.btc.on THEN RatMul(t3, a.btc.position_mult) ELSE t3
        t5 == RatMul(t4, a.time_mult)
        t6 == RatMul(t5, ConfidenceMultiplier(a.ai_confidence))
        weight_check == CheckPositionWeightCap(env, t6, ok[2], ok[3])
        target == IF weight_check.allowed THEN t6 ELSE weight_check.max_allowed_krw
        final_amt == RatMin(target, RatMul(RatInt(free_krw), Rat(85, 100)))
        amount ==
            IF a.btc.on /\ RatLe(a.btc.position_mult, RatInt(0)) THEN RatInt(0)
            ELSE IF a.is_dca /\ ~CheckDcaLimit(env) THEN RatInt(0)
            ELSE IF RatLt(final_amt, RatInt(MIN_ORDER_AMOUNT)) THEN RatInt(0)
            ELSE RatMax(RatInt(0), final_amt)
    IN [amount |-> amount, allowed |-> weight_check.allowed, price_ok |-> ok[3]]

RiskEnvs ==
    [krw_total : {0, 100000}, krw_free : {0, 100000}, qty : {0, 100, 1000},
     price : {100, 400}, dca_stage : {0, 2}, realtime : BOOLEAN, aggressive : BOOLEAN]

RiskArgs ==
    [pf_weight : {Rat(35, 100), RatInt(1)},
     risk : {[on |-> FALSE, level |-> 0], [on |-> TRUE, level |-> 30], [on |-> TRUE, level |-> 80]},
     btc : {[on |-> FALSE, position_mult |-> RatInt(1)], [on |-> TRUE, position_mult |-> RatInt(0)],
            [on |-> TRUE, position_mult |-> Rat(13, 10)]},
     time_mult : {RatInt(1), Rat(1, 2)},
     ai_confidence : {50, 85},
     is_dca : BOOLEAN]

RmGetTradeAmount(a, ok) ==
    /\ rmOut = NoCall
    /\ rmOut' = GetTradeAmount(rmEnv, a, ok)
    /\ UNCHANGED <<rmEnv, now, nonRiskVars>>

\* the caller has used the amount; the next call starts
RmReturn ==
    /\ rmOut # NoCall
    /\ rmOut' = NoCall
    /\ UNCHANGED <<rmEnv, now, nonRiskVars>>

DefaultRiskEnv ==
    [krw_total |-> 100000, krw_free |-> 100000, qty |-> 0, price |-> 100, dca_stage |-> 0,
     realtime |-> TRUE, aggressive |-> FALSE]

RiskInit(env) ==
    /\ rmEnv = env
    /\ rmOut = NoCall

NextRisk ==
    \/ \E a \in RiskArgs, ok \in [1..3 -> BOOLEAN] : RmGetTradeAmount(a, ok)
    \/ RmReturn

(***************************************************************************)
(* Exchange client: bot/api/bithumb_ccxt_api.py                            *)
(* Quantities are whole quantity steps of the coin; an accepted order is   *)
(* filled in full. The limit price of an order is the ticker price: the    *)
(* 0.3 % slippage allowance is below the price resolution of the model.    *)
(***************************************************************************)
MaxRetries == 1               \* retry_with_backoff(max_retries): retries after the first attempt
MaxBuys == 2                  \* the account's funds pay for this many buy orders
MaxDcaBuys == 4               \* the same, in the runs that drive the DCA ladder

Floor(r) == r.n \div r.d
Round(r) == (2 * r.n + r.d) \div (2 * r.d)
RatDivInt(a, k) == Rat(a.n, a.d * k)

\* what one attempt of exchange.create_limit_*_order can do:
\*   "ok"   the order is accepted and the acknowledgement returned
\*   "lost" the order is accepted but the call raises (time-out, broken connection)
\*   "fail" the order is not accepted and the call raises
\*   "none" the call returns no order
Outcomes == {"ok", "lost", "fail", "none"}

\* the outcomes of the attempts of one handler call, in order; attempts beyond
\* the script are "ok": no fault, an acknowledgement lost once, no response,
\* every attempt refused
RetryScripts ==
    {<<>>, <<"lost">>, <<"none">>, [i \in 1..(MaxRetries + 1) |-> "fail"]}

\* retry_with_backoff: for attempt in range(max_retries + 1): try func() except: retry
RECURSIVE RetryWithBackoff(_, _, _, _, _)
RetryWithBackoff(side, qty, ex, script, attempt) ==
    LET o == IF script = <<>> THEN "ok" ELSE Head(script)
        rest == IF script = <<>> THEN <<>> ELSE Tail(script)
        \* the exchange accepts a sell only up to the balance, a buy only up to the funds
        refused == \/ side = "sell" /\ qty > ex.bal
                   \/ side = "buy" /\ ex.buys >= egCfg.max_buys
        out == IF refused /\ o \in {"ok", "lost"} THEN "fail" ELSE o
        placed == IF out \in {"ok", "lost"} THEN 1 ELSE 0
        newEx == IF placed = 0 THEN ex
                 ELSE IF side = "buy" THEN [bal |-> ex.bal + qty, buys |-> ex.buys + 1]
                 ELSE [ex EXCEPT !.bal = @ - qty]
    IN IF out = "ok" THEN [result |-> "order", ex |-> newEx, accepted |-> 1, rest |-> rest]
       ELSE IF out = "none" THEN [result |-> "none", ex |-> ex, accepted |-> 0, rest |-> rest]
       ELSE IF attempt < MaxRetries
            THEN LET r == RetryWithBackoff(side, qty, newEx, rest, attempt + 1)
                 IN [r EXCEPT !.accepted = @ + placed]
            ELSE [result |-> "raise", ex |-> newEx, accepted |-> placed, rest |-> rest]

\* the exchange and the history after one wrapped call that returned r
ApiResult(c, side, s, qty, r) ==
    [c EXCEPT !.bal[s] = r.ex.bal,
              !.buys = r.ex.buys,
              !.accepted = @ + r.accepted,
              !.dup = @ \/ r.accepted >= 2,
              !.oversell = @ \/ (side = "sell" /\ qty > c.bal[s]),
              !.script = r.rest,
              !.placed = r.accepted,
              !.last = r.result]

\* one create_limit_buy / create_limit_sell call, with its retry wrapper, on the
\* handler context c
ApiOrder(c, side, s, qty) ==
    ApiResult(c, side, s, qty, RetryWithBackoff(side, qty, [bal |-> c.bal[s], buys |-> c.buys], c.script, 0))

\* create_limit_buy(symbol, krw_amount): qty = round_qty(krw_amount / limit_price, down);
\* every attempt raises when the ticker has no price or the quantity is 0
CreateLimitBuy(c, s, krw_amount, price) ==
    IF price = 0 \/ Floor(RatDivInt(krw_amount, Max(price, 1))) <= 0
    THEN [c EXCEPT !.last = "raise"]
    ELSE ApiOrder(c, "buy", s, Floor(RatDivInt(krw_amount, price)))

\* create_limit_sell(symbol, qty)
CreateLimitSell(c, s, qty, price) ==
    IF price = 0 \/ qty <= 0
    THEN [c EXCEPT !.last = "raise"]
    ELSE ApiOrder(c, "sell", s, qty)

(***************************************************************************)
(* Execution Engine: bot/core/execution_engine.py                          *)
(* Every handler is one action. Inside it the handler context c carries    *)
(* the state it reads and writes (pm: PositionManager.positions, holds:    *)
(* sl_hold_until, disk: the durable file, bal: the exchange balances,      *)
(* pend: sl_pending_symbols) and what the call did (ret, cause, accepted,  *)
(* ...).                                                                   *)
(***************************************************************************)
EngineSymbols == {"XRP/KRW"}           \* the symbols the engine is driven on
BASE_TRADE_RISK_RATIO == Rat(8, 100)   \* config.py

\* __init__: the settings that depend on AGGRESSIVE_MODE
PositionBoost == IF egCfg.aggressive THEN Rat(14, 10) ELSE RatInt(1)
AiTpMultiplier == IF egCfg.aggressive THEN Rat(18, 10) ELSE RatInt(1)
AiSlReduction == IF egCfg.aggressive THEN Rat(5, 10) ELSE RatInt(1)
TrailingOffset == IF egCfg.aggressive THEN Rat(6, 1000) ELSE Rat(15, 1000)
MaxDcaStage == IF egCfg.aggressive THEN 5 ELSE 3

\* the AI decisions the engine is driven with (confidence in percent)
AiDecisions ==
    {[tp_ratio |-> Rat(10, 100), sl_ratio |-> Rat(10, 100), confidence |-> 65,
      position_mult |-> pmult, tp_mult |-> RatInt(1)] : pmult \in {RatInt(0), RatInt(1)}}

\* _calculate_dynamic_position_multiplier
DynamicPositionMultiplier(ai) ==
    LET conf_mult == IF ai.confidence >= 85 THEN Rat(13, 10)
                     ELSE IF ai.confidence >= 75 THEN Rat(115, 100)
                     ELSE IF ai.confidence >= 65 THEN RatInt(1)
                     ELSE IF ai.confidence >= 55 THEN Rat(85, 100)
                     ELSE Rat(7, 10)
    IN IF RatLe(ai.position_mult, RatInt(0)) THEN RatInt(0)
       ELSE RatMax(Rat(5, 10), RatMin(Rat(16, 10), RatMul(ai.position_mult, conf_mult)))

\* _calculate_dynamic_tp_multiplier
DynamicTpMultiplier(ai) ==
    LET conf == IF ai.confidence >= 85 THEN Rat(11, 10)
                ELSE IF ai.confidence >= 70 THEN Rat(105, 100)
                ELSE RatInt(1)
    IN RatMin(RatMul(ai.tp_mult, conf), Rat(15, 10))

\* _build_tp_levels
TpLevelsConf ==
    <<[id |-> 1, mult |-> Rat(6, 10), portion |-> Rat(5, 10)],
      [id |-> 2, mult |-> RatInt(1), portion |-> Rat(3, 10)],
      [id |-> 3, mult |-> Rat(16, 10), portion |-> Rat(2, 10)]>>

BuildTpLevels(entry_price, base_ratio, ai) ==
    LET ratio == IF RatLe(base_ratio, RatInt(0)) THEN Rat(2, 100) ELSE base_ratio
        adjusted_ratio == RatMin(RatMul(ratio, DynamicTpMultiplier(ai)), Rat(15, 100))
    IN [i \in 1..3 |->
          [id |-> TpLevelsConf[i].id,
           price |-> RatMul(RatInt(entry_price),
                            RatAdd(RatInt(1), RatMul(adjusted_ratio, TpLevelsConf[i].mult))),
           portion |-> TpLevelsConf[i].portion,
           executed |-> FALSE]]

\* history: the sell orders accepted for each take-profit level of a position
NoneFired == [i \in 1..3 |-> 0]
Fired(c, s, i) == [c EXCEPT !.fired[s][i] = Min(2, @ + c.placed)]

\* the context a handler starts with
Ctx(script) ==
    [pm |-> positions, holds |-> sl_hold_until, disk |-> fs.durable, bal |-> exBal,
     buys |-> exBuys,
     pend |-> sl_pending, script |-> script, last |-> "none",
     op |-> "none", ret |-> FALSE, cause |-> "none",
     accepted |-> 0, dup |-> FALSE, oversell |-> FALSE, reopened |-> FALSE,
     closed |-> FALSE, changed |-> FALSE,
     placed |-> 0, fired |-> tpFired, tp_last |-> FALSE,
     trail |-> "none", trail_due |-> FALSE,
     fired_step |-> "none", sl_due |-> FALSE, ai_sl_due |-> FALSE,
     tp_called |-> FALSE, dca_called |-> FALSE, bought |-> FALSE]

Return(c, ret, cause) == [c EXCEPT !.ret = ret, !.cause = cause]

\* PositionManager._save, inside a handler
PmSave(c) == [c EXCEPT !.disk = Snapshot(c.pm, c.holds)]

\* PositionManager.close_position
PmClosePosition(c, s) ==
    IF c.pm[s] = NoPos THEN c
    ELSE PmSave([c EXCEPT !.pm[s] = NoPos, !.fired[s] = NoneFired])

\* PositionManager.update_position(symbol, new_pos)
PmUpdatePosition(c, s, new_pos) ==
    IF c.pm[s] = NoPos THEN c
    ELSE PmSave([c EXCEPT !.pm[s] = new_pos])

\* PositionManager.add_dca
PmAddDca(c, s, qty, price) ==
    IF c.pm[s] = NoPos THEN c
    ELSE PmSave([c EXCEPT !.pm[s] = AddDcaRec(@, qty, price)])

\* PositionManager.is_sl_held: an elapsed hold is deleted and the state saved
PmIsSlHeld(c, s) ==
    IF c.holds[s] = NoHold THEN [c EXCEPT !.last = "free"]
    ELSE IF now >= c.holds[s]
         THEN [PmSave([c EXCEPT !.holds[s] = NoHold]) EXCEPT !.last = "free"]
         ELSE [c EXCEPT !.last = "held"]

\* what fetch_balance returns: the balances, or {} when the request fails
Balances == {[ok |-> TRUE, free_krw |-> 100000], [ok |-> FALSE, free_krw |-> 0]}

\* _get_actual_balance: 0.0 when fetch_balance fails or the coin is absent
GetActualBalance(c, s, b) == IF b.ok THEN c.bal[s] ELSE 0

\* _request_sell_approval, after the hold check h. The "sl" request is sent by
\* send_sl_approval_request. The other request passes (reason, pnl_pct) for the
\* parameters (pnl_pct, reason) of send_sell_approval_request, which compares
\* the reason string with 0 and raises: the guard is removed again and the
\* call returns False.
SellApprovalChecked(h, s, sell_type) ==
    IF h.last = "held" THEN Return(h, TRUE, "sl_held")
    ELSE IF sell_type = "sl"
    THEN Return([h EXCEPT !.pend = @ \cup {s}], TRUE, "approval_requested")
    ELSE Return([h EXCEPT !.pend = @ \ {s}], FALSE, "approval_failed")

\* _request_sell_approval (the Telegram bot is connected)
RequestSellApproval(c, s, sell_type) ==
    IF s \in c.pend THEN Return(c, TRUE, "approval_pending")
    ELSE SellApprovalChecked(IF sell_type = "sl" THEN PmIsSlHeld(c, s)
                             ELSE [c EXCEPT !.last = "free"], s, sell_type)

\* market_buy, after create_limit_buy returned: open_position
MarketBuyOrdered(c1, s, new_pos) ==
    IF c1.last = "raise" THEN Return(c1, FALSE, "submit_raised")
    ELSE IF c1.last = "none" THEN Return(c1, FALSE, "no_response")
    ELSE Return(PmSave([c1 EXCEPT !.pm = OpenPositionMap(@, s, new_pos),
                                  !.reopened = c1.pm[s] # NoPos,
                                  !.fired[s] = NoneFired]),
                TRUE, "ok")

\* market_buy: the position it records for quantity expected_qty bought at price
MarketBuyPosition(expected_qty, price, ai_tp, ai_sl, ai) ==
    NewPos(expected_qty, price, ai_tp, ai_sl,
           RatMul(RatInt(price), RatAdd(RatInt(1), ai_tp)),
           RatMul(RatInt(price), RatSub(RatInt(1), ai_sl)),
           [enabled |-> FALSE, offset |-> TrailingOffset, highest_price |-> RatInt(price)],
           BuildTpLevels(price, ai_tp, ai))

\* market_buy without the test of the amount against MIN_ORDER_AMOUNT
MarketBuyAmountNoMinimum(c, s, amount, ai, price, expected_qty) ==
    IF price = 0 THEN Return(c, FALSE, "price_failed")
    ELSE IF expected_qty <= 0 THEN Return(c, FALSE, "qty_zero")
    ELSE MarketBuyOrdered(CreateLimitBuy(c, s, amount, price), s,
                          MarketBuyPosition(expected_qty, price,
                                            RatMul(ai.tp_ratio, AiTpMultiplier),
                                            RatMul(ai.sl_ratio, AiSlReduction), ai))

\* market_buy, from the price lookup on
MarketBuyAmount(c, s, amount, ai, price, expected_qty) ==
    IF RatLt(amount, RatInt(MIN_ORDER_AMOUNT)) THEN Return(c, FALSE, "below_min")
    ELSE IF price = 0 THEN Return(c, FALSE, "price_failed")
    ELSE IF expected_qty <= 0 THEN Return(c, FALSE, "qty_zero")
    ELSE MarketBuyOrdered(CreateLimitBuy(c, s, amount, price), s,
                          MarketBuyPosition(expected_qty, price,
                                            RatMul(ai.tp_ratio, AiTpMultiplier),
                                            RatMul(ai.sl_ratio, AiSlReduction), ai))

\* market_buy, with the boosted amount
MarketBuyBoosted(c, s, boosted, ai, b, price) ==
    IF RatLt(RatInt(b.free_krw), boosted)
    THEN MarketBuyAmount(c, s, RatInt(b.free_krw), ai, price,
                         Floor(RatDivInt(RatInt(b.free_krw), Max(price, 1))))
    ELSE MarketBuyAmount(c, s, boosted, ai, price, Floor(RatDivInt(boosted, Max(price, 1))))

\* market_buy(symbol, krw_amount, ai_decision, pf_weight)
MarketBuy(c0, s, krw_amount, ai, b, price) ==
    IF RatLe(DynamicPositionMultiplier(ai), RatInt(0))
    THEN Return([c0 EXCEPT !.op = "market_buy"], FALSE, "blocked")
    ELSE MarketBuyBoosted([c0 EXCEPT !.op = "market_buy"], s,
                          RatMul(RatInt(krw_amount),
                                 RatMul(PositionBoost, DynamicPositionMultiplier(ai))),
                          ai, b, price)

\* market_sell, after create_limit_sell returned
MarketSellOrdered(c1, s) ==
    IF c1.last = "raise" THEN Return(c1, FALSE, "submit_raised")
    ELSE IF c1.last = "none" THEN Return(c1, FALSE, "no_response")
    ELSE Return(PmClosePosition([c1 EXCEPT !.pend = @ \ {s}], s), TRUE, "ok")

\* market_sell, from the balance lookup on
MarketSellBalance(c, s, ratio, b, price, actual_qty) ==
    IF actual_qty <= 0
    THEN Return(PmClosePosition([c EXCEPT !.pend = @ \ {s}], s), TRUE,
                IF b.ok THEN "no_balance" ELSE "balance_failed")
    ELSE IF RatLe(RatInt(1), ratio)
    THEN IF Floor(RatMul(RatInt(actual_qty), Rat(9995, 10000))) <= 0
         THEN Return(c, FALSE, "qty_zero")
         ELSE MarketSellOrdered(
                 CreateLimitSell(c, s, Floor(RatMul(RatInt(actual_qty), Rat(9995, 10000))),
                                 price), s)
    ELSE IF Floor(RatMul(RatInt(actual_qty), ratio)) <= 0
         THEN Return(c, FALSE, "qty_zero")
         ELSE MarketSellOrdered(
                 CreateLimitSell(c, s, Floor(RatMul(RatInt(actual_qty), ratio)), price), s)

\* market_sell(symbol, pos, reason, ratio, skip_approval)
MarketSell(c0, s, pos, ratio, skip_approval, b, price) ==
    IF price = 0 THEN Return([c0 EXCEPT !.op = "market_sell"], FALSE, "price_failed")
    ELSE IF egCfg.mode = "SEMI" /\ ~skip_approval /\ RatLt(RatInt(price), pos.entry_price)
    THEN RequestSellApproval([c0 EXCEPT !.op = "market_sell"], s, "signal")
    ELSE MarketSellBalance([c0 EXCEPT !.op = "market_sell"], s, ratio, b, price,
                           GetActualBalance(c0, s, b))

\* _handle_tp_levels: the quantity of a partial exit
TpSellQty(pos, lvl) ==
    Min(Round(RatMul(RatInt(pos.initial_qty), lvl.portion)), pos.qty)

\* _handle_tp_levels: the record of the position after level i sold sell_qty
TpSoldPos(pos, i, lvl, sell_qty, price) ==
    [pos EXCEPT !.qty = @ - sell_qty,
                !.tp_levels[i].executed = TRUE,
                !.trailing.enabled = @ \/ lvl.id = 1,
                !.trailing.highest_price = RatMax(@, RatInt(price))]

\* _handle_tp_levels: the loop over the levels, from level i on; the record of
\* the position is changed in place
RECURSIVE TpLoop(_, _, _, _, _)

\* the loop body after create_limit_sell returned (its response is not looked at)
TpOrdered(c1, s, i, sold, b, price) ==
    IF c1.last = "raise"
    THEN [Fired(c1, s, i) EXCEPT !.op = "tp_partial", !.cause = "submit_raised"]
    ELSE IF sold.qty <= 0
         THEN [Fired(c1, s, i) EXCEPT !.pm[s] = sold, !.changed = TRUE,
                                      !.op = "tp_partial", !.cause = "ok"]
    ELSE TpLoop([Fired(c1, s, i) EXCEPT !.pm[s] = sold, !.changed = TRUE,
                                        !.op = "tp_partial", !.cause = "ok"],
                s, i + 1, b, price)

\* the loop body for a level that is not the last: the partial exit
TpPartial(c, s, i, pos, lvl, sell_qty, b, price) ==
    IF sell_qty <= 0
    THEN TpLoop([c EXCEPT !.pm[s].tp_levels[i].executed = TRUE], s, i + 1, b, price)
    ELSE TpOrdered(CreateLimitSell(c, s, sell_qty, price), s, i,
                   TpSoldPos(pos, i, lvl, sell_qty, price), b, price)

\* the loop body for level i
TpLevel(c, s, i, pos, lvl, b, price) ==
    IF lvl.executed THEN TpLoop(c, s, i + 1, b, price)
    ELSE IF RatLt(RatInt(price), lvl.price) THEN c
    ELSE IF i = Len(pos.tp_levels)
         THEN [Fired(MarketSell([c EXCEPT !.placed = 0], s, pos, RatInt(1), TRUE, b, price),
                     s, i)
                 EXCEPT !.closed = TRUE]
    ELSE TpPartial(c, s, i, pos, lvl, TpSellQty(pos, lvl), b, price)

TpLoop(c, s, i, b, price) ==
    IF i > Len(c.pm[s].tp_levels) THEN c
    ELSE TpLevel(c, s, i, c.pm[s], c.pm[s].tp_levels[i], b, price)

\* _handle_tp_levels, after the loop
TpLoopDone(c1, s) ==
    IF c1.closed THEN c1
    ELSE IF c1.changed THEN PmUpdatePosition(c1, s, c1.pm[s])
    ELSE c1

\* _handle_tp_levels(symbol, pos, price); c.closed is its result
HandleTpLevels(c, s, b, price) ==
    IF c.pm[s].tp_levels = <<>> \/ c.pm[s].initial_qty <= 0 \/ c.pm[s].qty <= 0 THEN c
    ELSE TpLoopDone(TpLoop(c, s, 1, b, price), s)

\* check_trailing_stop, with the highest price seen
TrailingStopAt(c, s, pos, highest, price) ==
    IF RatLt(highest, RatInt(price))
    THEN [PmUpdatePosition(c, s, [pos EXCEPT !.trailing.highest_price = RatInt(price)])
            EXCEPT !.last = "no"]
    ELSE IF RatLe(RatInt(price), RatMul(highest, RatSub(RatInt(1), pos.trailing.offset)))
         THEN [c EXCEPT !.last = "stop"]
    ELSE [c EXCEPT !.last = "no"]

\* check_trailing_stop without the test of trailing.enabled
CheckTrailingStopUnarmed(c, s, price) ==
    TrailingStopAt(c, s, c.pm[s],
                   IF RatLe(c.pm[s].trailing.highest_price, RatInt(0))
                   THEN RatInt(price) ELSE c.pm[s].trailing.highest_price,
                   price)

\* check_trailing_stop(symbol, pos, price); c.last = "stop" when the stop is hit
CheckTrailingStop(c, s, price) ==
    IF ~c.pm[s].trailing.enabled THEN [c EXCEPT !.last = "no"]
    ELSE TrailingStopAt(c, s, c.pm[s],
                        IF RatLe(c.pm[s].trailing.highest_price, RatInt(0))
                        THEN RatInt(price) ELSE c.pm[s].trailing.highest_price,
                        price)

\* dca_buy: the price drop that triggers each stage
DcaLevels == <<Rat(2, 100), Rat(4, 100), Rat(6, 100), Rat(9, 100), Rat(12, 100)>>

\* dca_buy, after create_limit_buy returned: add_dca
DcaOrdered(c1, s, qty, price) ==
    IF c1.last = "raise" THEN Return(c1, FALSE, "submit_raised")
    ELSE IF c1.last = "none" THEN Return(c1, FALSE, "no_response")
    ELSE Return(PmAddDca(c1, s, qty, price), TRUE, "ok")

\* dca_buy, with the amount of the order
DcaAmount(c, s, dca_amount, price) ==
    DcaOrdered(CreateLimitBuy(c, s, dca_amount, price), s,
               Round(RatDivInt(dca_amount, price)), price)

\* dca_buy without the test of stage against MAX_DCA_COUNT
DcaBuyNoCountLimit(c0, s, pos, b, price) ==
    IF RatLe(pos.entry_price, RatInt(0))
    THEN Return([c0 EXCEPT !.op = "dca_buy"], FALSE, "no_entry")
    ELSE IF pos.dca_stage + 1 > Len(DcaLevels) \/ pos.dca_stage >= MaxDcaStage
    THEN Return([c0 EXCEPT !.op = "dca_buy"], FALSE, "dca_limit")
    ELSE IF price = 0 THEN Return([c0 EXCEPT !.op = "dca_buy"], FALSE, "price_failed")
    ELSE IF RatLt(RatSub(RatInt(0), RatMul(DcaLevels[pos.dca_stage + 1], pos.entry_price)),
                  RatSub(RatInt(price), pos.entry_price))
    THEN Return([c0 EXCEPT !.op = "dca_buy"], FALSE, "not_triggered")
    ELSE IF b.free_krw < MIN_ORDER_AMOUNT
    THEN Return([c0 EXCEPT !.op = "dca_buy"], FALSE, "below_min")
    ELSE DcaAmount([c0 EXCEPT !.op = "dca_buy"], s,
                   RatMul(RatMul(RatInt(b.free_krw), BASE_TRADE_RISK_RATIO), PositionBoost),
                   price)

\* dca_buy(symbol, pos)
DcaBuy(c0, s, pos, b, price) ==
    IF RatLe(pos.entry_price, RatInt(0))
    THEN Return([c0 EXCEPT !.op = "dca_buy"], FALSE, "no_entry")
    ELSE IF pos.dca_stage >= MAX_DCA_COUNT
    THEN Return([c0 EXCEPT !.op = "dca_buy"], FALSE, "dca_limit")
    ELSE IF pos.dca_stage + 1 > Len(DcaLevels) \/ pos.dca_stage >= MaxDcaStage
    THEN Return([c0 EXCEPT !.op = "dca_buy"], FALSE, "dca_limit")
    ELSE IF price = 0 THEN Return([c0 EXCEPT !.op = "dca_buy"], FALSE, "price_failed")
    ELSE IF RatLt(RatSub(RatInt(0), RatMul(DcaLevels[pos.dca_stage + 1], pos.entry_price)),
                  RatSub(RatInt(price), pos.entry_price))
    THEN Return([c0 EXCEPT !.op = "dca_buy"], FALSE, "not_triggered")
    ELSE IF b.free_krw < MIN_ORDER_AMOUNT
    THEN Return([c0 EXCEPT !.op = "dca_buy"], FALSE, "below_min")
    ELSE DcaAmount([c0 EXCEPT !.op = "dca_buy"], s,
                   RatMul(RatMul(RatInt(b.free_krw), BASE_TRADE_RISK_RATIO), PositionBoost),
                   price)

\* history: the trailing record tr is armed and price is at or below
\* highest_price * (1 - offset)
TrailingDue(tr, price) ==
    /\ tr.enabled
    /\ RatLe(RatInt(price), RatMul(tr.highest_price, RatSub(RatInt(1), tr.offset)))

\* history: the record stays armed from pos to new_pos and its highest_price is lower
Armed(pos) == pos # NoPos /\ pos.trailing.enabled
HighestDropped(pos, new_pos) ==
    /\ Armed(pos)
    /\ Armed(new_pos)
    /\ RatLt(new_pos.trailing.highest_price, pos.trailing.highest_price)

\* check_positions: is the stop-loss price reached
HardSlHit(pos, price) == RatLt(RatInt(0), pos.sl) /\ RatLe(RatInt(price), pos.sl)

\* check_positions: is the AI stop-loss ratio reached
AiSlHit(pos, price) ==
    /\ RatLt(RatInt(0), pos.ai_sl)
    /\ RatLe(RatInt(price), RatMul(pos.entry_price, RatSub(RatInt(1), pos.ai_sl)))

\* check_positions: is the stop-loss price or the AI stop-loss ratio reached
SlHit(pos, price) == HardSlHit(pos, price) \/ AiSlHit(pos, price)

\* a stop followed by the DCA step
StopExitThenDca(c, s, b, price) ==
    DcaBuy([(IF egCfg.mode = "SEMI" THEN RequestSellApproval(c, s, "sl")
             ELSE MarketSell(c, s, c.pm[s], RatInt(1), FALSE, b, price))
               EXCEPT !.dca_called = TRUE],
           s, c.pm[s], b, price)

\* a stop: an approval request in SEMI mode, else a market sell
StopExit(c, s, b, price) ==
    IF egCfg.mode = "SEMI" THEN RequestSellApproval(c, s, "sl")
    ELSE MarketSell(c, s, c.pm[s], RatInt(1), FALSE, b, price)

\* the history names the partial exit when the sweep made one and dca_buy did nothing
SweepDone(c3, op, cause) ==
    IF c3.cause \in {"no_entry", "dca_limit", "not_triggered"} /\ op = "tp_partial"
    THEN [c3 EXCEPT !.op = op, !.cause = cause]
    ELSE c3

\* check_positions, after check_trailing_stop
SweepTrailed(c2, s, b, price) ==
    IF c2.last = "stop"
    THEN StopExit([c2 EXCEPT !.trail = "stop", !.fired_step = "trail"], s, b, price)
    ELSE SweepDone(DcaBuy([c2 EXCEPT !.trail = "no", !.dca_called = TRUE],
                          s, c2.pm[s], b, price),
                   c2.op, c2.cause)

\* check_positions, after _handle_tp_levels
SweepTpHandled(c1, s, b, price) ==
    IF c1.closed THEN [c1 EXCEPT !.fired_step = "tp_close"]
    ELSE SweepTrailed(CheckTrailingStop(c1, s, price), s, b, price)

\* _apply_legacy_exit: the TP price, the SL price, the AI TP ratio, the AI SL ratio
ApplyLegacyExit(c, s, pos, b, price) ==
    IF RatLt(RatInt(0), pos.tp) /\ RatLe(pos.tp, RatInt(price))
    THEN MarketSell([c EXCEPT !.fired_step = "legacy_tp"], s, pos, RatInt(1), TRUE, b, price)
    ELSE IF HardSlHit(pos, price)
    THEN StopExit([c EXCEPT !.fired_step = "sl"], s, b, price)
    ELSE IF /\ RatLt(RatInt(0), pos.ai_tp)
            /\ RatLe(RatMul(pos.entry_price, RatAdd(RatInt(1), pos.ai_tp)), RatInt(price))
    THEN MarketSell([c EXCEPT !.fired_step = "legacy_ai_tp"], s, pos, RatInt(1), TRUE, b, price)
    ELSE IF AiSlHit(pos, price)
    THEN StopExit([c EXCEPT !.fired_step = "ai_sl"], s, b, price)
    ELSE c

\* check_positions, after _apply_legacy_exit
SweepLegacy(c1, s, b, price) ==
    IF c1.fired_step # "none" THEN c1
    ELSE SweepTrailed(CheckTrailingStop(c1, s, price), s, b, price)

\* check_positions, for a position with take-profit levels
SweepLevels(c, s, b, price) ==
    IF HardSlHit(c.pm[s], price)
    THEN StopExit([c EXCEPT !.fired_step = "sl"], s, b, price)
    ELSE IF AiSlHit(c.pm[s], price)
    THEN StopExit([c EXCEPT !.fired_step = "ai_sl"], s, b, price)
    ELSE SweepTpHandled(
            HandleTpLevels([c EXCEPT !.tp_called = TRUE,
                                     !.tp_last = RatLe(c.pm[s].tp_levels[3].price,
                                                       RatInt(price))],
                           s, b, price),
            s, b, price)

\* history: what the sweep found when it began
SweepBegins(c0, s, price) ==
    [c0 EXCEPT !.op = "check_positions",
               !.sl_due = HardSlHit(c0.pm[s], price),
               !.ai_sl_due = AiSlHit(c0.pm[s], price),
               !.trail_due = TrailingDue(c0.pm[s].trailing, price)]

\* check_positions: the body of the loop, for one position
\* the body of the loop of check_positions for one symbol. A record that is no
\* dict makes pos.get raise, which the except clause of the loop catches
CheckPosition(c0, s, b, price) ==
    IF price = 0 THEN Return([c0 EXCEPT !.op = "check_positions"], FALSE, "price_failed")
    ELSE IF c0.pm[s] = NotADict
    THEN Return([c0 EXCEPT !.op = "check_positions"], FALSE, "raised")
    ELSE IF RatLe(SafeFloat(c0.pm[s].entry_price, RatInt(0)), RatInt(0))
    THEN Return([c0 EXCEPT !.op = "check_positions"], FALSE, "no_entry")
    ELSE IF c0.pm[s].tp_levels = <<>>
    THEN SweepLegacy(ApplyLegacyExit(SweepBegins(c0, s, price), s, c0.pm[s], b, price),
                     s, b, price)
    ELSE SweepLevels(SweepBegins(c0, s, price), s, b, price)

\* what the price lookups of the handlers return (0: the lookup failed)
BuyPrices == {0, 100}
SellPrices == {0, 96, 107}
SweepPrices == {0, 85, 96, 107, 125}
TradeAmounts == {3000, 10000}          \* what get_trade_amount returned, in KRW
RequestAmounts == {10000}              \* the amount of a buy that waits for approval
ExternalSellQtys == {60}               \* coins the account owner sells outside the bot

\* the faults of one handler call: a blocking AI decision, a failed balance
\* lookup, a failed price lookup, a faulty order submission
Faults(i) ==
    {f \in {"ai", "balance", "price", "order"} :
        \/ f = "ai" /\ RatLe(i.ai.position_mult, RatInt(0))
        \/ f = "balance" /\ ~i.b.ok
        \/ f = "price" /\ i.price = 0
        \/ f = "order" /\ i.script # <<>>}

\* the inputs of the handlers: at most one fault in a call
BuyInputs ==
    {i \in [ai : AiDecisions, b : Balances, price : BuyPrices, script : RetryScripts] :
        Cardinality(Faults(i)) <= 1}
SellInputs ==
    {i \in [ai : {CHOOSE a \in AiDecisions : ~RatLe(a.position_mult, RatInt(0))},
            b : Balances, price : SellPrices, script : RetryScripts] :
        Cardinality(Faults(i)) <= 1}
SweepInputs ==
    {i \in [ai : {CHOOSE a \in AiDecisions : ~RatLe(a.position_mult, RatInt(0))},
            b : Balances, price : SweepPrices, script : RetryScripts] :
        Cardinality(Faults(i)) <= 1}

NoEngineCall ==
    [op |-> "none", ret |-> FALSE, cause |-> "none", accepted |-> 0,
     dup |-> FALSE, oversell |-> FALSE, changed |-> FALSE, reopened |-> FALSE,
     tp_last |-> FALSE, trail |-> "none", trail_due |-> FALSE, hi_dropped |-> FALSE,
     fired_step |-> "none", sl_due |-> FALSE, ai_sl_due |-> FALSE,
     tp_called |-> FALSE, dca_called |-> FALSE, bought |-> FALSE]

\* the handler returns: its effects become the state
\* what a handler that ended in context c leaves behind
EgEffects(c) ==
    /\ positions' = c.pm
    /\ sl_hold_until' = c.holds
    /\ fs' = [fs EXCEPT !.durable = c.disk]
    /\ exBal' = c.bal
    /\ exBuys' = c.buys
    /\ sl_pending' = c.pend
    /\ egLast' = [op |-> c.op, ret |-> c.ret, cause |-> c.cause,
                  accepted |-> c.accepted, dup |-> c.dup, oversell |-> c.oversell,
                  changed |-> c.pm # positions, reopened |-> c.reopened,
                  tp_last |-> c.tp_last, trail |-> c.trail, trail_due |-> c.trail_due,
                  hi_dropped |-> \E s \in EngineSymbols : HighestDropped(positions[s], c.pm[s]),
                  fired_step |-> c.fired_step, sl_due |-> c.sl_due,
                  ai_sl_due |-> c.ai_sl_due, tp_called |-> c.tp_called,
                  dca_called |-> c.dca_called, bought |-> c.buys # exBuys]
    /\ tpFired' = c.fired

EgCommit(c) ==
    /\ EgEffects(c)
    /\ UNCHANGED <<stPc, savePre, crashAt, stLast, fills, egCfg, now, nonEngineVars>>

\* execute(symbol, "buy", ai_decision, pf_weight), called by the signal loop in AUTO mode
EgExecuteBuy(s, krw, ai, b, price, script) ==
    /\ egCfg.mode = "AUTO"
    /\ IF ~egCfg.aggressive /\ positions[s] # NoPos
       THEN EgCommit(Return([Ctx(script) EXCEPT !.op = "execute"], FALSE, "has_position"))
       ELSE EgCommit(MarketBuy(Ctx(script), s, krw, ai, b, price))
    /\ UNCHANGED approval_queue

\* send_approval_request(signal="buy"): a buy waits for the operator
EgRequestBuy(s, krw) ==
    /\ approval_queue[s] = 0
    /\ approval_queue' = [approval_queue EXCEPT ![s] = krw]
    /\ UNCHANGED <<positions, sl_hold_until, fs, exBal, exBuys, sl_pending, egLast, tpFired>>
    /\ UNCHANGED <<stPc, savePre, crashAt, stLast, fills, egCfg, now, nonEngineVars>>

\* TelegramBot._handle_approve: the operator approves the buy
EgApproveBuy(s, ai, b, price, script) ==
    /\ approval_queue[s] # 0
    /\ approval_queue' = [approval_queue EXCEPT ![s] = 0]
    /\ EgCommit(MarketBuy(Ctx(script), s, approval_queue[s], ai, b, price))

\* market_sell(symbol, pos), called by the sell-approval handlers
\* (telegram_bot.py 606, 701) and by the signal loop (signal_bot.py 374)
EgMarketSell(s, b, price, script) ==
    /\ positions[s] # NoPos
    /\ EgCommit(MarketSell(Ctx(script), s, positions[s], RatInt(1), FALSE, b, price))
    /\ UNCHANGED approval_queue

\* close_position(symbol, pos): manual close, market_sell with skip_approval
EgClosePosition(s, b, price, script) ==
    /\ positions[s] # NoPos
    /\ EgCommit(MarketSell(Ctx(script), s, positions[s], RatInt(1), TRUE, b, price))
    /\ UNCHANGED approval_queue

\* check_positions: one iteration of the sweep
EgCheckPosition(s, b, price, script) ==
    /\ positions[s] # NoPos
    /\ EgCommit(CheckPosition(Ctx(script), s, b, price))
    /\ UNCHANGED approval_queue

\* the account owner sells coins on the exchange, outside the bot
ExternalSell(s, q) ==
    /\ exBal[s] >= q
    /\ exBal' = [exBal EXCEPT ![s] = @ - q]
    /\ UNCHANGED <<positions, sl_hold_until, fs, exBuys, sl_pending, egLast, approval_queue,
                   tpFired>>
    /\ UNCHANGED <<stPc, savePre, crashAt, stLast, fills, egCfg, now, nonEngineVars>>

EngineInit(cfg) ==
    /\ exBal = [s \in Symbols |-> 0]
    /\ exBuys = 0
    /\ sl_pending = {}
    /\ approval_queue = [s \in Symbols |-> 0]
    /\ egCfg = cfg
    /\ egLast = NoEngineCall
    /\ tpFired = [s \in Symbols |-> NoneFired]

EngineConfigs ==
    {[mode |-> "SEMI", aggressive |-> FALSE, max_buys |-> MaxBuys],
     [mode |-> "AUTO", aggressive |-> FALSE, max_buys |-> MaxBuys],
     [mode |-> "AUTO", aggressive |-> TRUE, max_buys |-> MaxBuys]}
DefaultEngineConfig == [mode |-> "SEMI", aggressive |-> FALSE, max_buys |-> MaxBuys]

NextEngine ==
    \/ \E s \in EngineSymbols, krw \in TradeAmounts, i \in BuyInputs :
          EgExecuteBuy(s, krw, i.ai, i.b, i.price, i.script)
    \/ \E s \in EngineSymbols, krw \in RequestAmounts : EgRequestBuy(s, krw)
    \/ \E s \in EngineSymbols, i \in BuyInputs : EgApproveBuy(s, i.ai, i.b, i.price, i.script)
    \/ \E s \in EngineSymbols, i \in SellInputs : EgMarketSell(s, i.b, i.price, i.script)
    \/ \E s \in EngineSymbols, i \in SellInputs : EgClosePosition(s, i.b, i.price, i.script)
    \/ \E s \in EngineSymbols, i \in SweepInputs : EgCheckPosition(s, i.b, i.price, i.script)
    \/ \E s \in EngineSymbols, q \in ExternalSellQtys : ExternalSell(s, q)

(***************************************************************************)
(* The DCA ladder: the sweep driven down the averaging-in levels, with     *)
(* funds for more orders than MAX_DCA_COUNT allows                         *)
(***************************************************************************)
\* RiskManager.check_dca_limit(symbol), on the position the store holds
CheckDcaLimitOf(pos) ==
    IF pos = NoPos
    THEN [allowed |-> TRUE, current_count |-> 0, remaining |-> MAX_DCA_COUNT]
    ELSE [allowed |-> MAX_DCA_COUNT - pos.dca_stage > 0,
          current_count |-> pos.dca_stage,
          remaining |-> Max(0, MAX_DCA_COUNT - pos.dca_stage)]

EgCheckDcaLimit(s) ==
    /\ EgCommit(Return([Ctx(<<>>) EXCEPT !.op = "check_dca_limit"],
                       CheckDcaLimitOf(positions[s]).allowed,
                       IF CheckDcaLimitOf(positions[s]).allowed THEN "ok" ELSE "dca_limit"))
    /\ UNCHANGED approval_queue

\* decisions with a wide stop, so that the price reaches the DCA levels first
DcaDecisions ==
    {[tp_ratio |-> Rat(10, 100), sl_ratio |-> Rat(30, 100), confidence |-> 65,
      position_mult |-> pmult, tp_mult |-> RatInt(1)] : pmult \in {RatInt(0), RatInt(1)}}
DcaPrices == {0, 97, 93, 89}
DcaBuyInputs ==
    {i \in [ai : DcaDecisions, b : Balances, price : BuyPrices, script : RetryScripts] :
        Cardinality(Faults(i)) <= 1}
DcaSweepInputs ==
    {i \in [ai : {a \in DcaDecisions : ~RatLe(a.position_mult, RatInt(0))},
            b : Balances, price : DcaPrices, script : RetryScripts] :
        Cardinality(Faults(i)) <= 1}

NextDca ==
    \/ \E s \in EngineSymbols, krw \in TradeAmounts, i \in DcaBuyInputs :
          EgExecuteBuy(s, krw, i.ai, i.b, i.price, i.script)
    \/ \E s \in EngineSymbols, i \in DcaSweepInputs : EgCheckPosition(s, i.b, i.price, i.script)
    \/ \E s \in EngineSymbols : EgCheckDcaLimit(s)

(***************************************************************************)
(* Circuit breaker: bot/core/circuit_breaker.py                            *)
(* Every method runs under self.lock, so each call is one step. The clock  *)
(* is read in minutes; a calendar day has DayTicks of them. Percentages    *)
(* are whole numbers.                                                      *)
(***************************************************************************)
DayTicks == 4                 \* clock ticks per calendar day
MaxCbCount == 3               \* a counter is driven up to this value
MaxCbPct == 4                 \* |daily_pnl_pct| is driven up to this value
MaxCbPnl == 2000              \* |daily_pnl| is driven up to this value

NoTripTime == -1
NoReason == [kind |-> "none", value |-> 0]

DateOf(t) == t \div DayTicks

\* __init__
CbNew(t) ==
    [consecutive_losses |-> 0, daily_pnl |-> 0, daily_pnl_pct |-> 0, api_failures |-> 0,
     is_tripped |-> FALSE, trip_reason |-> NoReason, trip_time |-> NoTripTime,
     trip_alerts |-> 0,
     last_reset_date |-> DateOf(t)]

\* _daily_reset_check
DailyResetCheck(b, t) ==
    IF DateOf(t) > b.last_reset_date
    THEN [b EXCEPT !.daily_pnl = 0, !.daily_pnl_pct = 0, !.api_failures = 0,
                   !.last_reset_date = DateOf(t)]
    ELSE b

\* _trip. main.py sets alert_callback before the threads start; trip_alerts counts
\* the trip alerts handed to it during the call in progress
Trip(b, reason, t) ==
    [b EXCEPT !.is_tripped = TRUE, !.trip_reason = reason, !.trip_time = t,
              !.trip_alerts = @ + 1]

\* _check_conditions with the daily loss tested before the consecutive losses
CheckConditionsDailyFirst(b, cfg, t) ==
    IF b.is_tripped THEN b
    ELSE IF b.daily_pnl_pct <= -cfg.max_daily_loss_pct
    THEN Trip(b, [kind |-> "daily_loss", value |-> b.daily_pnl_pct], t)
    ELSE IF b.consecutive_losses >= cfg.max_consecutive_losses
    THEN Trip(b, [kind |-> "consecutive_losses", value |-> b.consecutive_losses], t)
    ELSE IF b.api_failures >= cfg.max_api_failures
    THEN Trip(b, [kind |-> "api_failures", value |-> b.api_failures], t)
    ELSE b

\* _check_conditions without the return for a breaker that is tripped already
CheckConditionsAgain(b, cfg, t) ==
    IF b.consecutive_losses >= cfg.max_consecutive_losses
    THEN Trip(b, [kind |-> "consecutive_losses", value |-> b.consecutive_losses], t)
    ELSE IF b.daily_pnl_pct <= -cfg.max_daily_loss_pct
    THEN Trip(b, [kind |-> "daily_loss", value |-> b.daily_pnl_pct], t)
    ELSE IF b.api_failures >= cfg.max_api_failures
    THEN Trip(b, [kind |-> "api_failures", value |-> b.api_failures], t)
    ELSE b

\* _check_conditions
CheckConditions(b, cfg, t) ==
    IF b.is_tripped THEN b
    ELSE IF b.consecutive_losses >= cfg.max_consecutive_losses
    THEN Trip(b, [kind |-> "consecutive_losses", value |-> b.consecutive_losses], t)
    ELSE IF b.daily_pnl_pct <= -cfg.max_daily_loss_pct
    THEN Trip(b, [kind |-> "daily_loss", value |-> b.daily_pnl_pct], t)
    ELSE IF b.api_failures >= cfg.max_api_failures
    THEN Trip(b, [kind |-> "api_failures", value |-> b.api_failures], t)
    ELSE b

\* record_trade: the counters once the result is added
RecordTradeCounted(b, pnl, pnl_pct) ==
    [b EXCEPT !.daily_pnl = @ + pnl, !.daily_pnl_pct = @ + pnl_pct,
              !.consecutive_losses = IF pnl < 0 THEN @ + 1 ELSE 0]

RecordTrade(b, cfg, pnl, pnl_pct, t) ==
    CheckConditions(RecordTradeCounted(DailyResetCheck(b, t), pnl, pnl_pct), cfg, t)

\* record_api_failure: the counters once the failure is added
RecordApiFailureCounted(b) == [b EXCEPT !.api_failures = @ + 1]

RecordApiFailure(b, cfg, t) ==
    CheckConditions(RecordApiFailureCounted(DailyResetCheck(b, t)), cfg, t)

\* record_api_success as a reset of the counter
RecordApiSuccessResets(b) ==
    IF b.api_failures > 0 THEN [b EXCEPT !.api_failures = 0] ELSE b

\* record_api_success
RecordApiSuccess(b) ==
    IF b.api_failures > 0 THEN [b EXCEPT !.api_failures = Max(0, @ - 1)] ELSE b

\* _reset_internal, without the clearing of the counters
ResetInternalKeepCounters(b) ==
    [b EXCEPT !.is_tripped = FALSE, !.trip_reason = NoReason, !.trip_time = NoTripTime]

\* _reset_internal
ResetInternal(b) ==
    [b EXCEPT !.is_tripped = FALSE, !.trip_reason = NoReason, !.trip_time = NoTripTime,
              !.consecutive_losses = 0, !.api_failures = 0]

\* can_trade: the cooldown test, strict
CooldownElapsedStrict(b, cfg, t) ==
    /\ b.trip_time # NoTripTime
    /\ cfg.cooldown_minutes > 0
    /\ t - b.trip_time > cfg.cooldown_minutes

\* can_trade: the cooldown test
CooldownElapsed(b, cfg, t) ==
    /\ b.trip_time # NoTripTime
    /\ cfg.cooldown_minutes > 0
    /\ t - b.trip_time >= cfg.cooldown_minutes

\* can_trade: the state it leaves and the value it returns
CanTrade(b, cfg, t) ==
    IF ~b.is_tripped THEN [cb |-> b, ret |-> TRUE]
    ELSE IF CooldownElapsed(b, cfg, t) THEN [cb |-> ResetInternal(b), ret |-> TRUE]
    ELSE [cb |-> b, ret |-> FALSE]

\* reset
Reset(b) ==
    IF ~b.is_tripped THEN [cb |-> b, ret |-> FALSE]
    ELSE [cb |-> ResetInternal(b), ret |-> TRUE]

\* get_remaining_cooldown
GetRemainingCooldown(b, cfg, t) ==
    IF ~b.is_tripped \/ b.trip_time = NoTripTime THEN 0
    ELSE Max(0, cfg.cooldown_minutes - (t - b.trip_time))

TradeResults ==
    {[pnl |-> -1000, pnl_pct |-> -2], [pnl |-> -1000, pnl_pct |-> 0],
     [pnl |-> 0, pnl_pct |-> 0], [pnl |-> 1000, pnl_pct |-> 2]}

CbCall(op, ret, b) ==
    /\ cb' = [b EXCEPT !.trip_alerts = 0]
    /\ cbLast' = [op |-> op, ret |-> ret, alerts |-> b.trip_alerts,
                  was_tripped |-> cb.is_tripped, was_reason |-> cb.trip_reason.kind,
                  elapsed |-> IF cb.is_tripped THEN now - cbLast.tripped_at ELSE 0,
                  tripped_at |-> IF ~b.is_tripped THEN NoTripTime
                                 ELSE IF ~cb.is_tripped THEN now
                                 ELSE cbLast.tripped_at]
    /\ UNCHANGED <<cbCfg, now, nonBreakerVars>>

CbRecordTrade(r) ==
    /\ cb.consecutive_losses < MaxCbCount
    /\ cb.daily_pnl + r.pnl \in (-MaxCbPnl)..MaxCbPnl
    /\ cb.daily_pnl_pct + r.pnl_pct \in (-MaxCbPct)..MaxCbPct
    /\ CbCall("record_trade", TRUE, RecordTrade(cb, cbCfg, r.pnl, r.pnl_pct, now))

CbRecordApiFailure ==
    /\ cb.api_failures < MaxCbCount
    /\ CbCall("record_api_failure", TRUE, RecordApiFailure(cb, cbCfg, now))

CbRecordApiSuccess ==
    CbCall("record_api_success", TRUE, RecordApiSuccess(cb))

CbCanTrade ==
    LET r == CanTrade(cb, cbCfg, now) IN CbCall("can_trade", r.ret, r.cb)

\* reset(manual=True): the /cb_reset command
CbReset ==
    LET r == Reset(cb) IN CbCall("reset", r.ret, r.cb)

CbGetRemainingCooldown ==
    CbCall("get_remaining_cooldown", GetRemainingCooldown(cb, cbCfg, now) > 0, cb)

BreakerConfigs ==
    {[max_consecutive_losses |-> 2, max_daily_loss_pct |-> 3, max_api_failures |-> 2,
      cooldown_minutes |-> c] : c \in {0, 2}}
DefaultBreakerConfig ==
    [max_consecutive_losses |-> 2, max_daily_loss_pct |-> 3, max_api_failures |-> 2,
     cooldown_minutes |-> 2]

BreakerInit(cfg) ==
    /\ cb = CbNew(0)
    /\ cbCfg = cfg
    /\ cbLast = [op |-> "none", ret |-> TRUE, alerts |-> 0, was_tripped |-> FALSE,
                 was_reason |-> "none", elapsed |-> 0, tripped_at |-> NoTripTime]

NextBreaker ==
    \/ Tick
    \/ \E r \in TradeResults : CbRecordTrade(r)
    \/ CbRecordApiFailure
    \/ CbRecordApiSuccess
    \/ CbCanTrade
    \/ CbReset
    \/ CbGetRemainingCooldown

(***************************************************************************)
(* Sell approvals of SEMI mode: bot/core/execution_engine.py,              *)
(* bot/telegram/telegram_bot.py, bot/core/signal_bot.py                    *)
(* Two threads run engine code: the signal thread (main.py: run_signal,    *)
(* which sweeps the positions and handles the strategy signals) and the    *)
(* Telegram thread (the button callbacks). _request_sell_approval takes    *)
(* the guard lock once to test the guard and once more to add the symbol,  *)
(* so each of its lock sections is one step.                               *)
(***************************************************************************)
ApThreads == {"signal", "telegram"}
MaxReqs == 4                  \* requests registered in one run
ReqIds == 1..MaxReqs
SL_HOLD_HOURS == 1            \* config.py, in clock ticks
MaxApprovalTime == 2          \* the clock stops here in the approval runs
MaxApprovalBuys == 1          \* buys approved in one approval run
NoReq == [state |-> "none"]
ApIdle == [pc |-> "idle"]
SellCallbacks == {"sl_approve", "sl_reject", "sell_approve", "sell_reject"}
NoApprovalCall ==
    [op |-> "none", s |-> "none", found |-> FALSE, ret |-> FALSE, cause |-> "none",
     loss |-> FALSE, ordered |-> FALSE, sent |-> FALSE, pend_after |-> FALSE,
     alone |-> TRUE, changed |-> FALSE]

\* TelegramBot._next_id
NextId == 1 + Cardinality({i \in ReqIds : tgSell[i] # NoReq})

\* the prompts with buttons that are waiting for an answer
Prompts(queue, s, by) ==
    {i \in ReqIds : /\ queue[i] # NoReq
                    /\ queue[i].state = "queued" /\ queue[i].sent
                    /\ queue[i].symbol = s /\ queue[i].by = by}

\* the prices the handlers of this specification read
StopPrices == {85}
ApprovalPrices == {96, 107}
OkBalance == CHOOSE b \in Balances : b.ok

\* the state a step of a handler leaves
ApApply(c) ==
    /\ positions' = c.pm
    /\ sl_hold_until' = c.holds
    /\ fs' = [fs EXCEPT !.durable = c.disk]
    /\ exBal' = c.bal
    /\ exBuys' = c.buys
    /\ sl_pending' = c.pend
    /\ tpFired' = c.fired
    /\ UNCHANGED <<stPc, savePre, crashAt, stLast, fills, egCfg, egLast, approval_queue, now,
                   rateVars, riskVars, breakerVars, syncVars,
          guardVars, retryVars, cacheVars, moreVars>>

\* a step of the signal thread while a callback is being handled
Interleaved(pc) ==
    IF pc["telegram"] = ApIdle THEN pc
    ELSE [pc EXCEPT !["telegram"].alone = FALSE]
Stepped(t, pc) == IF t = "signal" THEN Interleaved(pc) ELSE pc

\* the handler of thread t returns
ApReturn(t, c, ret, cause, sent) ==
    /\ apPc' = Stepped(t, [apPc EXCEPT ![t] = ApIdle])
    /\ apLast' = [op |-> apPc[t].op, s |-> apPc[t].s, found |-> TRUE, ret |-> ret,
                  cause |-> cause, loss |-> apPc[t].loss, ordered |-> c.bal # exBal,
                  sent |-> sent, pend_after |-> apPc[t].s \in c.pend,
                  alone |-> apPc[t].alone, changed |-> TRUE]
    /\ ApApply(c)

\* the handler of thread t goes on at pc
ApGoto(t, pc, c) ==
    /\ apPc' = Stepped(t, [apPc EXCEPT ![t].pc = pc])
    /\ apLast' = NoApprovalCall
    /\ ApApply(c)

\* _request_sell_approval, line 567: the guard is tested
ApTestGuard(t, c, call) ==
    IF call.s \in c.pend
    THEN /\ apPc' = Stepped(t, [apPc EXCEPT ![t] = ApIdle])
         /\ apLast' = [op |-> call.op, s |-> call.s, found |-> TRUE, ret |-> TRUE,
                       cause |-> "approval_pending", loss |-> call.loss,
                       ordered |-> FALSE, sent |-> FALSE, pend_after |-> TRUE,
                       alone |-> call.alone, changed |-> c.pend # sl_pending]
         /\ ApApply(c)
    ELSE /\ apPc' = Stepped(t, [apPc EXCEPT ![t] = [call EXCEPT !.pc = "tested"]])
         /\ apLast' = NoApprovalCall
         /\ ApApply(c)

\* check_positions in SEMI mode, lines 1036-1045: the stop of a position is
\* reached and _request_sell_approval(symbol, pos, price, reason, "sl") begins
ApSweepStop(s, price) ==
    /\ egCfg.mode = "SEMI"
    /\ apPc["signal"] = ApIdle
    /\ positions[s] # NoPos
    /\ SlHit(positions[s], price)
    /\ tgSell' = tgSell
    /\ ApTestGuard("signal", Ctx(<<>>),
                   [pc |-> "called", op |-> "check_positions", s |-> s, type |-> "sl",
                    pos |-> positions[s], loss |-> TRUE, alone |-> TRUE])

\* _request_sell_approval, lines 571-575: the hold is looked up for an "sl" request
ApTestHold(t) ==
    /\ apPc[t] # ApIdle /\ apPc[t].pc = "tested"
    /\ tgSell' = tgSell
    /\ IF apPc[t].type # "sl" THEN ApGoto(t, "free", Ctx(<<>>))
       ELSE IF PmIsSlHeld(Ctx(<<>>), apPc[t].s).last = "held"
       THEN ApReturn(t, PmIsSlHeld(Ctx(<<>>), apPc[t].s), TRUE, "sl_held", FALSE)
       ELSE ApGoto(t, "free", PmIsSlHeld(Ctx(<<>>), apPc[t].s))

\* _request_sell_approval, line 585: _add_sl_pending
ApAddPending(t) ==
    /\ apPc[t] # ApIdle /\ apPc[t].pc = "free"
    /\ tgSell' = tgSell
    /\ ApGoto(t, "added", [Ctx(<<>>) EXCEPT !.pend = @ \cup {apPc[t].s}])

\* _request_sell_approval, lines 604-610: the request goes to the Telegram bot.
\* send_sl_approval_request registers the request and sends the prompt.
\* send_sell_approval_request is called with (reason, pnl_pct) for its
\* parameters (pnl_pct, reason): it registers the request, then compares the
\* reason string with 0 and raises before the prompt is sent.
ApSendRequest(t) ==
    /\ apPc[t] # ApIdle /\ apPc[t].pc = "added"
    /\ NextId <= MaxReqs
    /\ tgSell' = [tgSell EXCEPT ![NextId] =
                     [state |-> "queued",
                      type |-> IF apPc[t].type = "sl" THEN "sl" ELSE "strategy_sell",
                      symbol |-> apPc[t].s, pos |-> apPc[t].pos,
                      sent |-> apPc[t].type = "sl", by |-> "engine"]]
    /\ IF apPc[t].type = "sl"
       THEN ApReturn(t, Ctx(<<>>), TRUE, "approval_requested", TRUE)
       ELSE ApGoto(t, "raised", Ctx(<<>>))

\* _request_sell_approval, lines 612-617: the except branch removes the guard
ApRemovePending(t) ==
    /\ apPc[t] # ApIdle /\ apPc[t].pc = "raised"
    /\ tgSell' = tgSell
    /\ ApReturn(t, [Ctx(<<>>) EXCEPT !.pend = @ \ {apPc[t].s}], FALSE, "approval_failed", FALSE)

\* signal_bot.process, lines 366-386: a sell signal in SEMI mode sends the
\* strategy-sell prompt itself
ApSignalSell(s) ==
    /\ egCfg.mode = "SEMI"
    /\ apPc["signal"] = ApIdle
    /\ positions[s] # NoPos
    /\ NextId <= MaxReqs
    /\ tgSell' = [tgSell EXCEPT ![NextId] =
                     [state |-> "queued", type |-> "strategy_sell", symbol |-> s,
                      pos |-> positions[s], sent |-> TRUE, by |-> "signal_bot"]]
    /\ apPc' = Interleaved(apPc)
    /\ apLast' = [NoApprovalCall EXCEPT !.op = "signal_sell", !.s = s, !.sent = TRUE,
                                        !.changed = TRUE]
    /\ ApApply(Ctx(<<>>))

\* the callbacks a button of a delivered prompt can produce
CallbacksOf(type) ==
    IF type = "sl" THEN {"sl_approve", "sl_reject"} ELSE {"sell_approve", "sell_reject"}

\* button_callback: _handle_sl_approve, _handle_sl_reject, _handle_sell_approve,
\* _handle_sell_reject up to the first engine call. The request is popped; a
\* request that is no longer queued ends the handler.
ApCallback(kind, id) ==
    /\ apPc["telegram"] = ApIdle
    /\ tgSell[id] # NoReq /\ tgSell[id].sent
    /\ kind \in CallbacksOf(tgSell[id].type)
    /\ IF tgSell[id].state # "queued"
       THEN /\ apLast' = [NoApprovalCall EXCEPT !.op = kind, !.s = tgSell[id].symbol]
            /\ UNCHANGED <<tgSell, apPc>>
            /\ ApApply(Ctx(<<>>))
       ELSE /\ tgSell' = [tgSell EXCEPT ![id].state = "gone"]
            /\ apLast' = NoApprovalCall
            /\ apPc' = [apPc EXCEPT !["telegram"] =
                           [pc |-> IF kind = "sell_reject" THEN "done"
                                   ELSE IF kind = "sell_approve" THEN "sell"
                                   ELSE "clear",
                            op |-> kind, s |-> tgSell[id].symbol, type |-> "signal",
                            pos |-> tgSell[id].pos, loss |-> FALSE, alone |-> TRUE]]
            /\ ApApply(Ctx(<<>>))

\* _handle_sl_approve line 604, _handle_sl_reject line 628: clear_sl_pending
ApClearPending ==
    /\ apPc["telegram"] # ApIdle /\ apPc["telegram"].pc = "clear"
    /\ tgSell' = tgSell
    /\ ApGoto("telegram", IF apPc["telegram"].op = "sl_approve" THEN "sell" ELSE "hold",
              [Ctx(<<>>) EXCEPT !.pend = @ \ {apPc["telegram"].s}])

\* _handle_sl_reject lines 632-633: set_sl_hold(symbol), then the handler ends
ApSetHold ==
    /\ apPc["telegram"] # ApIdle /\ apPc["telegram"].pc = "hold"
    /\ tgSell' = tgSell
    /\ ApReturn("telegram",
                PmSave([Ctx(<<>>) EXCEPT !.holds[apPc["telegram"].s] = now + SL_HOLD_HOURS]),
                TRUE, "held", FALSE)

\* _handle_sell_reject: nothing but the answer to the user
ApRejectDone ==
    /\ apPc["telegram"] # ApIdle /\ apPc["telegram"].pc = "done"
    /\ tgSell' = tgSell
    /\ ApReturn("telegram", Ctx(<<>>), TRUE, "rejected", FALSE)

\* _handle_sl_approve line 606, _handle_sell_approve line 701:
\* market_sell(symbol, pos, reason) with the position kept in the request. At a
\* loss in SEMI mode it turns to _request_sell_approval(..., "signal"); else it
\* sells and returns.
ApMarketSell(price) ==
    /\ apPc["telegram"] # ApIdle /\ apPc["telegram"].pc = "sell"
    /\ tgSell' = tgSell
    /\ IF egCfg.mode = "SEMI" /\ RatLt(RatInt(price), apPc["telegram"].pos.entry_price)
       THEN ApTestGuard("telegram", Ctx(<<>>), [apPc["telegram"] EXCEPT !.loss = TRUE])
       ELSE ApReturn("telegram",
                     MarketSell(Ctx(<<>>), apPc["telegram"].s, apPc["telegram"].pos,
                                RatInt(1), FALSE, OkBalance, price),
                     MarketSell(Ctx(<<>>), apPc["telegram"].s, apPc["telegram"].pos,
                                RatInt(1), FALSE, OkBalance, price).ret,
                     MarketSell(Ctx(<<>>), apPc["telegram"].s, apPc["telegram"].pos,
                                RatInt(1), FALSE, OkBalance, price).cause,
                     FALSE)

\* the requests that wait in approval_queue
Queued(queue) == {i \in ReqIds : queue[i] # NoReq /\ queue[i].state = "queued"}

\* check_approval_expiry, called by the event loop of the Telegram thread
\* between two callbacks: the requests that have waited longer than
\* APPROVAL_TIMEOUT_SEC are popped and the user is told. The time-out (600 s)
\* is shorter than a tick of the clock, so any waiting request may be among
\* the expired ones.
ApExpire(expired) ==
    /\ apPc["telegram"] = ApIdle
    /\ expired # {}
    /\ expired \subseteq Queued(tgSell)
    /\ tgSell' = [i \in ReqIds |->
                     IF i \in expired THEN [tgSell[i] EXCEPT !.state = "expired"]
                     ELSE tgSell[i]]
    /\ apPc' = apPc
    /\ apLast' = [NoApprovalCall EXCEPT !.op = "check_approval_expiry", !.changed = TRUE]
    /\ ApApply(Ctx(<<>>))

\* the buy that opens the position: a request and its approval on the Telegram thread
ApprovalBuyInputs ==
    {i \in BuyInputs : Faults(i) = {} /\ i.price = 100}

ApprovalInit ==
    /\ tgSell = [i \in ReqIds |-> NoReq]
    /\ apPc = [t \in ApThreads |-> ApIdle]
    /\ apLast = NoApprovalCall

NextApproval ==
    \/ now < MaxApprovalTime /\ Tick
    \/ \E s \in EngineSymbols, krw \in RequestAmounts :
          positions[s] = NoPos /\ exBuys < MaxApprovalBuys /\ EgRequestBuy(s, krw)
    \/ \E s \in EngineSymbols, i \in ApprovalBuyInputs :
          apPc["telegram"] = ApIdle /\ EgApproveBuy(s, i.ai, i.b, i.price, i.script)
    \/ \E s \in EngineSymbols, price \in StopPrices : ApSweepStop(s, price)
    \/ \E s \in EngineSymbols : ApSignalSell(s)
    \/ \E t \in ApThreads : ApTestHold(t)
    \/ \E t \in ApThreads : ApAddPending(t)
    \/ \E t \in ApThreads : ApSendRequest(t)
    \/ \E t \in ApThreads : ApRemovePending(t)
    \/ \E kind \in SellCallbacks, id \in ReqIds : ApCallback(kind, id)
    \/ ApClearPending
    \/ ApSetHold
    \/ ApRejectDone
    \/ \E price \in ApprovalPrices : ApMarketSell(price)

\* a step of a handler that has begun: the threads run on
ApHandlerStep ==
    \/ \E t \in ApThreads : ApTestHold(t) \/ ApAddPending(t) \/ ApSendRequest(t)
                                \/ ApRemovePending(t)
    \/ ApClearPending
    \/ ApSetHold
    \/ \E price \in ApprovalPrices : ApMarketSell(price)

\* the clock of the approval runs
ApTick == now < MaxApprovalTime /\ Tick

\* the stop-loss approvals with the expiry timer of the Telegram thread
NextExpiry ==
    \/ ApTick
    \/ \E s \in EngineSymbols, krw \in RequestAmounts :
          positions[s] = NoPos /\ exBuys < MaxApprovalBuys /\ EgRequestBuy(s, krw)
    \/ \E s \in EngineSymbols, i \in ApprovalBuyInputs :
          apPc["telegram"] = ApIdle /\ EgApproveBuy(s, i.ai, i.b, i.price, i.script)
    \/ \E s \in EngineSymbols, price \in StopPrices : ApSweepStop(s, price)
    \/ \E kind \in {"sl_approve", "sl_reject"}, id \in ReqIds : ApCallback(kind, id)
    \/ ApHandlerStep
    \/ \E expired \in SUBSET ReqIds : ApExpire(expired)

(***************************************************************************)
(* Reconciliation with the exchange: PositionManager.sync_with_exchange    *)
(* (bot/core/position_manager.py), called by the Telegram sync command     *)
(* with no scalp positions. fetch_balance returns {} when the request      *)
(* fails and fetch_ticker returns {} when the request fails, so a failed   *)
(* lookup reads as no coins and as price 0.                                *)
(***************************************************************************)
DEFAULT_TP_PCT == Rat(3, 100)
DEFAULT_SL_PCT == Rat(2, 100)
SyncPrice == 100              \* the market price during the reconciliation runs
SyncQty == 100                \* coins the owner buys outside the bot
SyncSellQtys == {60, 100}     \* coins the owner sells outside the bot
NoAvg == 0                    \* _get_avg_buy_price found no average price

\* what one sync_with_exchange call reads: the balance request succeeds or
\* fails, each ticker request gives the price or fails (0), each average
\* buy price is found or not
SyncInputs ==
    {i \in [ok : BOOLEAN, ticker : [Symbols -> {0, SyncPrice}],
            avg : [Symbols -> {NoAvg, 90}]] :
        /\ Cardinality({s \in Symbols : i.ticker[s] = 0}) + (IF i.ok THEN 0 ELSE 1) <= 1
        /\ \A s, t \in Symbols : i.avg[s] = i.avg[t]}

\* the coins of the balance that are worth at least the minimum order amount
ExchangeCoins(c, i) ==
    {s \in Symbols : /\ i.ok
                     /\ c.bal[s] > 0
                     /\ c.bal[s] * i.ticker[s] >= MIN_ORDER_AMOUNT}

\* avg_price or price
SyncAvgPrice(i, s) == IF i.avg[s] # NoAvg THEN i.avg[s] ELSE i.ticker[s]

\* _add_synced_position: the record
SyncedPos(qty, avg_price) ==
    [NewPos(qty, avg_price, DEFAULT_TP_PCT, DEFAULT_SL_PCT,
            RatMul(RatInt(avg_price), RatAdd(RatInt(1), DEFAULT_TP_PCT)),
            RatMul(RatInt(avg_price), RatSub(RatInt(1), DEFAULT_SL_PCT)),
            DefaultTrailing(avg_price), <<>>)
       EXCEPT !.synced = TRUE]

\* sync_with_exchange: the positions after the three loops
SyncedMap(c, i) ==
    [s \in Symbols |->
        IF s \in ExchangeCoins(c, i) /\ c.pm[s] = NoPos
        THEN SyncedPos(c.bal[s], SyncAvgPrice(i, s))
        ELSE IF s \notin ExchangeCoins(c, i) THEN NoPos
        ELSE c.pm[s]]

\* sync_with_exchange
SyncWithExchange(c, i) ==
    PmSave([c EXCEPT !.pm = SyncedMap(c, i),
                     !.fired = [s \in Symbols |->
                                   IF SyncedMap(c, i)[s] = c.pm[s] THEN c.fired[s]
                                   ELSE NoneFired]])

\* the report of sync_with_exchange, with what the call found (held: the coins
\* of the account worth the minimum order amount at the market price, local:
\* the symbols with a position) and what it left (fresh: the symbols with a
\* synced position at the average buy price or else the market price and the
\* default TP/SL, gone: the symbols without a position)
SyncReport(c, i) ==
    [op |-> "sync",
     added |-> {s \in ExchangeCoins(c, i) : c.pm[s] = NoPos},
     removed |-> {s \in Symbols \ ExchangeCoins(c, i) : c.pm[s] # NoPos},
     matched |-> {s \in ExchangeCoins(c, i) : c.pm[s] # NoPos},
     held |-> {s \in Symbols : c.bal[s] * SyncPrice >= MIN_ORDER_AMOUNT},
     local |-> {s \in Symbols : c.pm[s] # NoPos},
     fresh |-> {s \in Symbols :
                  /\ SyncedMap(c, i)[s] # NoPos
                  /\ SyncedMap(c, i)[s] =
                        SyncedPos(c.bal[s], IF i.avg[s] # NoAvg THEN i.avg[s] ELSE SyncPrice)},
     gone |-> {s \in Symbols : SyncedMap(c, i)[s] = NoPos}]
NoSyncCall ==
    [op |-> "none", added |-> {}, removed |-> {}, matched |-> {}, held |-> {}, local |-> {},
     fresh |-> {}, gone |-> {}]

SySync(i) ==
    /\ positions' = SyncWithExchange(Ctx(<<>>), i).pm
    /\ fs' = [fs EXCEPT !.durable = SyncWithExchange(Ctx(<<>>), i).disk]
    /\ tpFired' = SyncWithExchange(Ctx(<<>>), i).fired
    /\ syLast' = SyncReport(Ctx(<<>>), i)
    /\ UNCHANGED <<sl_hold_until, stPc, savePre, crashAt, stLast, fills, now>>
    /\ UNCHANGED <<exBal, exBuys, sl_pending, approval_queue, egCfg, egLast>>
    /\ UNCHANGED <<rateVars, riskVars, breakerVars, approvalVars, guardVars, retryVars, cacheVars, moreVars>>

\* the owner buys coins directly at the exchange
ExternalBuy(s, q) ==
    /\ exBal[s] = 0
    /\ exBal' = [exBal EXCEPT ![s] = q]
    /\ UNCHANGED <<positions, sl_hold_until, fs, exBuys, sl_pending, egLast, approval_queue,
                   tpFired>>
    /\ UNCHANGED <<stPc, savePre, crashAt, stLast, fills, egCfg, now, nonEngineVars>>

SyncBuyInputs == {i \in BuyInputs : Faults(i) = {} /\ i.price = SyncPrice}
SyncSweepInputs == {i \in SweepInputs : Faults(i) = {} /\ i.price \in {85, 107}}

SyncInit == syLast = NoSyncCall

NextSync ==
    \/ \E s \in Symbols, krw \in RequestAmounts, i \in SyncBuyInputs :
          exBal[s] = 0 /\ EgExecuteBuy(s, krw, i.ai, i.b, i.price, i.script)
    \/ \E s \in Symbols, q \in SyncSellQtys : ExternalSell(s, q)
    \/ \E s \in Symbols : ExternalBuy(s, SyncQty)
    \/ \E s \in Symbols, i \in SyncSweepInputs :
          (positions[s] # NoPos /\ positions[s].synced)
             /\ EgCheckPosition(s, i.b, i.price, i.script)
    \/ \E i \in SyncInputs : SySync(i)

(***************************************************************************)
(* Risk guards: bot/core/risk_manager.py, check_drawdown, check_daily_loss, *)
(* register_trade_result, check_loss_streak. Each call is one step. The    *)
(* equity a check reads is get_total_capital() / CAPITAL_SAFETY_MARGIN of  *)
(* the account at the time of the call.                                    *)
(***************************************************************************)
DAILY_LOSS_LIMIT == Rat(5, 100)        \* config.py
DRAWDOWN_LIMIT == Rat(10, 100)         \* config.py
MaxLossRun == 5                        \* losing results registered in a row
NoDate == -9                           \* daily_date = None
NoValue == [none |-> TRUE]             \* daily_start_value / peak_value = None

RatDiv(a, b) == Rat(a.n * b.d, a.d * b.n)

\* datetime.utcnow().date(): the process runs utc_offset ticks ahead of UTC
UtcDateOf(t, cfg) == DateOf(t - cfg.utc_offset)
\* the calendar date of the process's own time zone
LocalDateOf(t) == DateOf(t)

\* the account a check reads: KRW only, no open position
DailyTotals == {1000000, 950000, 910000, 900000}
DrawdownTotals == {1000000, 930000, 900000}
GuardAccount(k) == [DefaultRiskEnv EXCEPT !.krw_total = k, !.krw_free = k]

\* get_total_capital() / Config.CAPITAL_SAFETY_MARGIN
CurrentEquity(env) == RatDiv(GetTotalCapital(env, TRUE), CAPITAL_SAFETY_MARGIN)

\* initialize_daily_value
InitializeDailyValue(g, total, cfg, t) ==
    [g EXCEPT !.daily_start_value = total, !.daily_date = UtcDateOf(t, cfg)]

\* check_daily_loss: daily_loss >= DAILY_LOSS_LIMIT * (1.8 if aggressive else 1.0).
\* In double arithmetic 0.05 * 1.8 is 0.09000000000000001, the double next
\* above the one of 0.09: a loss of 9 % compares below the limit.
DailyLossReached(daily_loss, cfg) ==
    IF cfg.aggressive THEN RatLt(RatMul(DAILY_LOSS_LIMIT, Rat(18, 10)), daily_loss)
    ELSE RatLe(DAILY_LOSS_LIMIT, daily_loss)

\* check_daily_loss, the state it leaves
DailyLossChecked(g, cfg, current, t) ==
    LET g1 == IF g.daily_start_value = NoValue
              THEN InitializeDailyValue(g, current, cfg, t) ELSE g
    IN IF UtcDateOf(t, cfg) # g1.daily_date
       THEN InitializeDailyValue(g1, current, cfg, t) ELSE g1

\* check_daily_loss, the status it returns on the state g2 it left
CheckDailyLoss(g2, cfg, current) ==
    IF RatLe(g2.daily_start_value, RatInt(0)) THEN "ok"
    ELSE IF DailyLossReached(RatDiv(RatSub(g2.daily_start_value, current),
                                    g2.daily_start_value), cfg)
    THEN "blocked" ELSE "ok"

\* check_drawdown with the peak set to the equity of every call
DrawdownCheckedNoPeak(g, current) == [g EXCEPT !.peak_value = current]

\* check_drawdown, the state it leaves
DrawdownChecked(g, current) ==
    IF g.peak_value = NoValue \/ RatLt(g.peak_value, current)
    THEN [g EXCEPT !.peak_value = current] ELSE g

\* check_drawdown, the status it returns on the state g1 it left
CheckDrawdown(g1, current) ==
    LET drawdown == RatDiv(RatSub(g1.peak_value, current), g1.peak_value)
    IN IF RatLe(g1.peak_value, RatInt(0)) THEN "ok"
       ELSE IF RatLe(DRAWDOWN_LIMIT, drawdown) THEN "blocked"
       ELSE IF RatLe(RatMul(DRAWDOWN_LIMIT, Rat(7, 10)), drawdown) THEN "warning"
       ELSE "ok"

\* register_trade_result counting a result of 0 as a loss
RegisterTradeResultZeroLoses(g, profit_krw) ==
    IF profit_krw <= 0 THEN [g EXCEPT !.loss_streak = @ + 1]
    ELSE [g EXCEPT !.loss_streak = 0]

\* register_trade_result(profit_krw)
RegisterTradeResult(g, profit_krw) ==
    IF profit_krw < 0 THEN [g EXCEPT !.loss_streak = @ + 1]
    ELSE [g EXCEPT !.loss_streak = 0]

\* check_loss_streak
MaxStreak(cfg) == IF cfg.aggressive THEN 5 ELSE 3
CheckLossStreak(g, cfg) == IF g.loss_streak >= MaxStreak(cfg) THEN "blocked" ELSE "ok"

TradeProfits == {-500, 0, 700}

GdCheckDailyLoss(k) ==
    LET current == CurrentEquity(GuardAccount(k))
        g2 == DailyLossChecked(rg, rgCfg, current, now)
        first == rgHist.day # LocalDateOf(now)
    IN /\ rg' = g2
       /\ rgHist' = IF first THEN [rgHist EXCEPT !.day = LocalDateOf(now), !.day_value = current]
                     ELSE rgHist
       /\ rgLast' = [op |-> "check_daily_loss", status |-> CheckDailyLoss(g2, rgCfg, current),
                     current |-> current]
       /\ UNCHANGED <<rgCfg, now, rateVars, storeVars, riskVars, engineVars, breakerVars,
                      approvalVars, syncVars, retryVars, cacheVars, moreVars>>

GdCheckDrawdown(k) ==
    LET current == CurrentEquity(GuardAccount(k))
        g1 == DrawdownChecked(rg, current)
    IN /\ rg' = g1
       /\ rgHist' = [rgHist EXCEPT !.max_seen =
                        IF @ = NoValue THEN current ELSE RatMax(@, current)]
       /\ rgLast' = [op |-> "check_drawdown", status |-> CheckDrawdown(g1, current),
                     current |-> current]
       /\ UNCHANGED <<rgCfg, now, rateVars, storeVars, riskVars, engineVars, breakerVars,
                      approvalVars, syncVars, retryVars, cacheVars, moreVars>>

GdRegisterTradeResult(profit_krw) ==
    /\ profit_krw < 0 => rg.loss_streak < MaxLossRun
    /\ rg' = RegisterTradeResult(rg, profit_krw)
    /\ rgHist' = [rgHist EXCEPT !.neg_run = IF profit_krw < 0 THEN @ + 1 ELSE 0]
    /\ rgLast' = [op |-> "register_trade_result", status |-> "ok", current |-> NoValue]
    /\ UNCHANGED <<rgCfg, now, rateVars, storeVars, riskVars, engineVars, breakerVars,
                   approvalVars, syncVars, retryVars, cacheVars, moreVars>>

GdCheckLossStreak ==
    /\ rgLast' = [op |-> "check_loss_streak", status |-> CheckLossStreak(rg, rgCfg),
                  current |-> NoValue]
    /\ UNCHANGED <<rg, rgHist, rgCfg, now, rateVars, storeVars, riskVars, engineVars,
                   breakerVars, approvalVars, syncVars, retryVars, cacheVars, moreVars>>

GuardConfigs == [aggressive : BOOLEAN, utc_offset : {0, 1}]
DefaultGuardConfig == [aggressive |-> FALSE, utc_offset |-> 0]

GuardInit(cfg) ==
    /\ rg = [daily_start_value |-> NoValue, daily_date |-> NoDate, peak_value |-> NoValue,
             loss_streak |-> 0]
    /\ rgCfg = cfg
    /\ rgHist = [day |-> NoDate, day_value |-> NoValue, max_seen |-> NoValue, neg_run |-> 0]
    /\ rgLast = [op |-> "none", status |-> "ok", current |-> NoValue]

NextDaily ==
    \/ Tick
    \/ \E k \in DailyTotals : GdCheckDailyLoss(k)

NextGuard ==
    \/ \E k \in DrawdownTotals : GdCheckDrawdown(k)
    \/ \E p \in TradeProfits : GdRegisterTradeResult(p)
    \/ GdCheckLossStreak

(***************************************************************************)
(* The retry wrapper, attempt by attempt: retry_with_backoff of            *)
(* bot/api/bithumb_ccxt_api.py and of bot/api/rate_limiter.py.             *)
(* Delays are whole seconds. An error text is its sequence of characters.  *)
(***************************************************************************)
\* str.lower(), over the characters of the error texts
Lower(c) ==
    CASE c = "R" -> "r" [] c = "L" -> "l" [] c = "E" -> "e" [] c = "T" -> "t"
      [] OTHER -> c
LowerText(text) == [i \in DOMAIN text |-> Lower(text[i])]

\* x in error_str
Contains(text, x) ==
    \E i \in 1..(Len(text) - Len(x) + 1) : SubSeq(text, i, i + Len(x) - 1) = x

\* the signatures of bithumb_ccxt_api.retry_with_backoff
ApiSignatures ==
    {<<"4", "2", "9">>,
     <<"r", "a", "t", "e", " ", "l", "i", "m", "i", "t">>,
     <<"t", "o", "o", " ", "m", "a", "n", "y">>,
     <<"a", "c", "c", "e", "s", "s", " ", "t", "o", "o", " ", "f", "r", "e", "q", "u", "e", "n", "t">>}
\* the signatures of rate_limiter.retry_with_backoff
LimiterSignatures == ApiSignatures \cup {<<"e", "x", "c", "e", "e", "d", "e", "d">>}

\* str(e) of the errors the wrapped function raises
ErrorTexts ==
    {<<"H", "T", "T", "P", " ", "4", "2", "9">>,
     <<"R", "a", "t", "e", " ", "L", "i", "m", "i", "t">>,
     <<"E", "x", "c", "e", "e", "d", "e", "d">>,
     <<"t", "i", "m", "e", "o", "u", "t">>}

\* the decorators of fetch_balance / fetch_ticker and of create_limit_buy /
\* create_limit_sell, and rate_limiter.retry_with_backoff with its defaults
RetryConfigs ==
    {[max_retries |-> 3, base_delay |-> 1, max_delay |-> 30, rate_limit_multiplier |-> 2,
      signatures |-> ApiSignatures],
     [max_retries |-> 5, base_delay |-> 1, max_delay |-> 16, rate_limit_multiplier |-> 2,
      signatures |-> ApiSignatures],
     [max_retries |-> 3, base_delay |-> 1, max_delay |-> 30, rate_limit_multiplier |-> 2,
      signatures |-> LimiterSignatures]}
DefaultRetryConfig == CHOOSE cfg \in RetryConfigs : cfg.max_retries = 3 /\ cfg.signatures = ApiSignatures

NoError == [id |-> 0, text |-> <<>>]
NoResult == [kind |-> "none", value |-> 0, error |-> NoError]

\* is_rate_limit
IsRateLimit(e, cfg) == \E x \in cfg.signatures : Contains(LowerText(e.text), x)

\* the wait after a failed attempt that is not the last: the mutant takes every
\* error for an ordinary one
RetryWaitPlain(cfg, delay, e) == Min(delay, cfg.max_delay)

\* wait = min(delay * rate_limit_multiplier, max_delay) / min(delay, max_delay)
RetryWait(cfg, delay, e) ==
    IF IsRateLimit(e, cfg) THEN Min(delay * cfg.rate_limit_multiplier, cfg.max_delay)
    ELSE Min(delay, cfg.max_delay)

\* wrapper(*args, **kwargs) is entered: last_error = None; delay = base_delay
RtCall(cfg) ==
    /\ rt.pc \in {"idle", "done"}
    /\ rt' = [pc |-> "attempt", cfg |-> cfg, attempt |-> 0, delay |-> cfg.base_delay,
              calls |-> 0, waited |-> 0, wait |-> 0, last_error |-> NoError,
              out |-> NoResult]
    /\ rtHist' = <<>>
    /\ UNCHANGED <<now, rateVars, storeVars, riskVars, engineVars, breakerVars,
                   approvalVars, syncVars, guardVars, cacheVars, moreVars>>

\* return func(*args, **kwargs): the result of this call is the wrapper's
RtReturns ==
    /\ rt.pc = "attempt"
    /\ rt' = [rt EXCEPT !.pc = "done", !.calls = @ + 1,
                        !.out = [kind |-> "return", value |-> rt.calls + 1,
                                 error |-> NoError]]
    /\ UNCHANGED <<rtHist, now, rateVars, storeVars, riskVars, engineVars, breakerVars,
                   approvalVars, syncVars, guardVars, cacheVars, moreVars>>

\* except Exception as e: before the sleep, or, on the last attempt, the end of
\* the loop and raise last_error
RtRaises(text) ==
    /\ rt.pc = "attempt"
    /\ LET e == [id |-> rt.calls + 1, text |-> text]
           wait == RetryWait(rt.cfg, rt.delay, e)
       IN IF rt.attempt < rt.cfg.max_retries
          THEN /\ rt' = [rt EXCEPT !.pc = "sleep", !.calls = @ + 1, !.last_error = e,
                                   !.wait = wait]
               /\ rtHist' = Append(rtHist, [error |-> e, delay |-> rt.delay, wait |-> wait])
          ELSE /\ rt' = [rt EXCEPT !.pc = "done", !.calls = @ + 1, !.last_error = e,
                                   !.wait = 0,
                                   !.out = [kind |-> "raise", value |-> 0, error |-> e]]
               /\ rtHist' = Append(rtHist, [error |-> e, delay |-> rt.delay, wait |-> 0])
    /\ UNCHANGED <<now, rateVars, storeVars, riskVars, engineVars, breakerVars,
                   approvalVars, syncVars, guardVars, cacheVars, moreVars>>

\* time.sleep(wait); delay *= 2; the next attempt
RtSleep ==
    /\ rt.pc = "sleep"
    /\ rt' = [rt EXCEPT !.pc = "attempt", !.waited = @ + rt.wait, !.delay = @ * 2,
                        !.attempt = @ + 1]
    /\ UNCHANGED <<rtHist, now, rateVars, storeVars, riskVars, engineVars, breakerVars,
                   approvalVars, syncVars, guardVars, cacheVars, moreVars>>

\* the wrapped function comes back and the sleep ends
RtStep == RtReturns \/ (\E text \in ErrorTexts : RtRaises(text)) \/ RtSleep

RetryInit ==
    /\ rt = [pc |-> "idle", cfg |-> DefaultRetryConfig, attempt |-> 0, delay |-> 0,
             calls |-> 0, waited |-> 0, wait |-> 0, last_error |-> NoError,
             out |-> NoResult]
    /\ rtHist = <<>>

NextRetry ==
    \/ \E cfg \in RetryConfigs : RtCall(cfg)
    \/ RtReturns
    \/ \E text \in ErrorTexts : RtRaises(text)
    \/ RtSleep

(***************************************************************************)
(* CacheManager: bot/utils/cache.py                                        *)
(* Every method body runs under self._lock and reads time.time() inside    *)
(* it, so a call of any thread is one step at the clock's reading.         *)
(***************************************************************************)
MaxCacheOps == 3              \* calls that count in _stats, per run

CacheKeys == {"ticker", "ohlcv"}
CacheValueOf == [th \in Threads |-> IF th = "t1" THEN "v1" ELSE "v2"]   \* what a thread stores
NoTtl == -1                   \* ttl = None
CacheTtls == {NoTtl, 1}
DefaultTtl == 2               \* default_ttl of this instance
NoEntry == [value |-> "none", expires_at |-> 0, created_at |-> 0, hits |-> 0]
\* history, kept beside the cache in latest: the arguments and the time of the
\* set call an entry comes from; NoSet for a key without an entry
NoSet == [value |-> "none", at |-> 0, ttl |-> 0]

\* __init__
CacheNew ==
    [cache |-> [k \in CacheKeys |-> NoEntry],
     stats |-> [hits |-> 0, misses |-> 0, sets |-> 0, deletes |-> 0, expirations |-> 0],
     latest |-> [k \in CacheKeys |-> NoSet]]

CacheOps(c) == c.stats.hits + c.stats.misses + c.stats.sets + c.stats.deletes

\* get with the expiry test now >= entry.expires_at
CacheGetExpiresEarly(c, key, t) ==
    IF c.cache[key] = NoEntry
    THEN [c |-> [c EXCEPT !.stats.misses = @ + 1], ret |-> "none"]
    ELSE IF t >= c.cache[key].expires_at
    THEN [c |-> [c EXCEPT !.cache[key] = NoEntry, !.latest[key] = NoSet, !.stats.misses = @ + 1,
                          !.stats.expirations = @ + 1],
          ret |-> "none"]
    ELSE [c |-> [c EXCEPT !.cache[key].hits = @ + 1, !.stats.hits = @ + 1],
          ret |-> c.cache[key].value]

\* get
CacheGet(c, key, t) ==
    IF c.cache[key] = NoEntry
    THEN [c |-> [c EXCEPT !.stats.misses = @ + 1], ret |-> "none"]
    ELSE IF t > c.cache[key].expires_at
    THEN [c |-> [c EXCEPT !.cache[key] = NoEntry, !.latest[key] = NoSet, !.stats.misses = @ + 1,
                          !.stats.expirations = @ + 1],
          ret |-> "none"]
    ELSE [c |-> [c EXCEPT !.cache[key].hits = @ + 1, !.stats.hits = @ + 1],
          ret |-> c.cache[key].value]

\* set
CacheSet(c, key, value, ttl, t) ==
    LET life == IF ttl # NoTtl THEN ttl ELSE DefaultTtl
    IN [c EXCEPT !.cache[key] = [value |-> value, expires_at |-> t + life,
                                 created_at |-> t, hits |-> 0],
                 !.stats.sets = @ + 1,
                 !.latest[key] = [value |-> value, at |-> t, ttl |-> ttl]]

\* delete
CacheDelete(c, key) ==
    IF c.cache[key] # NoEntry
    THEN [c |-> [c EXCEPT !.cache[key] = NoEntry, !.latest[key] = NoSet, !.stats.deletes = @ + 1], ret |-> TRUE]
    ELSE [c |-> c, ret |-> FALSE]

\* cleanup_expired
CacheCleanupExpired(c, t) ==
    LET expired_keys == {k \in CacheKeys : c.cache[k] # NoEntry /\ c.cache[k].expires_at < t}
    IN [c |-> [c EXCEPT !.cache = [k \in CacheKeys |->
                                       IF k \in expired_keys THEN NoEntry ELSE @[k]],
                        !.latest = [k \in CacheKeys |->
                                       IF k \in expired_keys THEN NoSet ELSE @[k]],
                        !.stats.expirations = @ + Cardinality(expired_keys)],
        ret |-> Cardinality(expired_keys)]

ChGet(th, key) ==
    /\ CacheOps(ch) < MaxCacheOps
    /\ LET r == CacheGet(ch, key, now)
       IN /\ ch' = r.c
          /\ chLast' = [op |-> "get", thread |-> th, key |-> key, ret |-> r.ret]
    /\ UNCHANGED <<now, rateVars, storeVars, riskVars, engineVars, breakerVars,
                   approvalVars, syncVars, guardVars, retryVars, moreVars>>

ChSet(th, key, value, ttl) ==
    /\ CacheOps(ch) < MaxCacheOps
    /\ ch' = CacheSet(ch, key, value, ttl, now)
    /\ chLast' = [op |-> "set", thread |-> th, key |-> key, ret |-> "none"]
    /\ UNCHANGED <<now, rateVars, storeVars, riskVars, engineVars, breakerVars,
                   approvalVars, syncVars, guardVars, retryVars, moreVars>>

ChDelete(th, key) ==
    /\ CacheOps(ch) < MaxCacheOps
    /\ LET r == CacheDelete(ch, key)
       IN /\ ch' = r.c
          /\ chLast' = [op |-> "delete", thread |-> th, key |-> key, ret |-> r.ret]
    /\ UNCHANGED <<now, rateVars, storeVars, riskVars, engineVars, breakerVars,
                   approvalVars, syncVars, guardVars, retryVars, moreVars>>

ChCleanupExpired(th) ==
    /\ LET r == CacheCleanupExpired(ch, now)
       IN /\ ch' = r.c
          /\ chLast' = [op |-> "cleanup_expired", thread |-> th, key |-> "none",
                        ret |-> r.ret]
    /\ UNCHANGED <<now, rateVars, storeVars, riskVars, engineVars, breakerVars,
                   approvalVars, syncVars, guardVars, retryVars, moreVars>>

CacheInit ==
    /\ ch = CacheNew
    /\ chLast = [op |-> "none", thread |-> "none", key |-> "none", ret |-> "none"]

NextCache ==
    \/ Tick
    \/ \E th \in Threads, key \in CacheKeys : ChGet(th, key)
    \/ \E th \in Threads, key \in CacheKeys, ttl \in CacheTtls :
          ChSet(th, key, CacheValueOf[th], ttl)
    \/ \E th \in Threads, key \in CacheKeys : ChDelete(th, key)
    \/ \E th \in Threads : ChCleanupExpired(th)

(***************************************************************************)
(* check_positions as a loop: bot/core/execution_engine.py                 *)
(* The sweep takes a copy of the position map and runs the loop body once  *)
(* for every symbol of the copy, in the order of the map. The second       *)
(* symbol holds a record as positions.json delivered it.                   *)
(***************************************************************************)
LoadedSymbol == "SOL/KRW"

\* the records of LoadedSymbol: an entry price that is missing, a text, NaN,
\* zero or negative, and a record that is no JSON object
LoadedRecords ==
    {[NewPos(10, 100, Rat(10, 100), Rat(10, 100), RatInt(110), RatInt(90),
             DefaultTrailing(100), <<>>) EXCEPT !.entry_price = e] :
        e \in {PyNone, PyText, PyNaN, RatInt(0), RatInt(-100)}}
      \cup {NotADict}

\* the insertion orders of the position map
MapOrders == {<<"XRP/KRW", "SOL/KRW">>, <<"SOL/KRW", "XRP/KRW">>}

MaxSweeps == 2

SweepIdle ==
    [pc |-> "idle", todo |-> <<>>, snap |-> {}, evaluated |-> {}, caught |-> {},
     last |-> "none", sweeps |-> 0]

\* positions = self.pm.get_all_positions()
SwBegin(order) ==
    /\ sw.pc = "idle"
    /\ sw.sweeps < MaxSweeps
    /\ sw' = [pc |-> "loop",
              todo |-> SelectSeq(order, LAMBDA s : positions[s] # NoPos),
              snap |-> {s \in Symbols : positions[s] # NoPos},
              evaluated |-> {}, caught |-> {}, last |-> "none", sweeps |-> sw.sweeps + 1]
    /\ UNCHANGED <<now, rateVars, storeVars, riskVars, engineVars, breakerVars,
                   approvalVars, syncVars, guardVars, retryVars, cacheVars, aliasVars, lockVars>>

\* the loop after a body that raised stops: the exception leaves check_positions
SweepRestAborting(todo, cause) == IF cause = "raised" THEN <<>> ELSE Tail(todo)

\* for symbol, pos in positions.items(): try: ... except Exception: handle_error
SweepRest(todo, cause) == Tail(todo)

\* one pass of the loop body
SwBody(b, price, script) ==
    /\ sw.pc = "loop"
    /\ sw.todo # <<>>
    /\ LET s == Head(sw.todo)
           c == CheckPosition(Ctx(script), s, b, price)
       IN /\ EgEffects(c)
          /\ sw' = [sw EXCEPT !.todo = SweepRest(sw.todo, c.cause),
                              !.evaluated = @ \cup {s},
                              !.last = s,
                              !.caught = IF c.cause = "raised" THEN @ \cup {s} ELSE @]
    /\ UNCHANGED <<approval_queue, stPc, savePre, crashAt, stLast, fills, egCfg, now,
                   rateVars, riskVars, breakerVars, approvalVars, syncVars, guardVars,
                   retryVars, cacheVars, aliasVars, lockVars>>

\* the loop is through
SwEnd ==
    /\ sw.pc = "loop"
    /\ sw.todo = <<>>
    /\ sw' = [sw EXCEPT !.pc = "idle"]
    /\ UNCHANGED <<now, rateVars, storeVars, riskVars, engineVars, breakerVars,
                   approvalVars, syncVars, guardVars, retryVars, cacheVars, aliasVars, lockVars>>

SweepInit == sw = SweepIdle

\* between two sweeps the signal thread buys
NextSweep ==
    \/ \E s \in EngineSymbols, krw \in RequestAmounts, i \in SweepInputs :
          /\ sw.pc = "idle"
          /\ Faults(i) = {}
          /\ EgExecuteBuy(s, krw, i.ai, i.b, i.price, i.script)
    \/ \E order \in MapOrders : SwBegin(order)
    \/ \E i \in SweepInputs : SwBody(i.b, i.price, i.script)
    \/ SwEnd

(***************************************************************************)
(* The records get_position and get_all_positions hand out:                *)
(* bot/core/position_manager.py, bot/core/execution_engine.py              *)
(* get_position returns self.positions.get(symbol) and get_all_positions   *)
(* returns dict(self.positions): a new map of the same record objects. An  *)
(* assignment to a field of a returned record is an assignment to the      *)
(* record of the store. _handle_tp_levels is followed step by step here:   *)
(* each partial exit, then update_position; another thread may save the    *)
(* store in between.                                                       *)
(***************************************************************************)
AliasIdle == [pc |-> "idle", s |-> "none", via |-> "none", got |-> NoPos, disk |-> NoPos]

\* the record of symbol s in the durable file
DurableRecord(s) == Load(fs.durable)[s]

\* pos = self.pm.get_position(symbol), or positions = self.pm.get_all_positions()
\* and pos = positions[symbol]
AlGet(s, via) ==
    /\ al.pc = "idle"
    /\ positions[s] # NoPos
    /\ al' = [pc |-> "held", s |-> s, via |-> via, got |-> positions[s],
              disk |-> DurableRecord(s)]
    /\ UNCHANGED <<now, rateVars, storeVars, riskVars, engineVars, breakerVars,
                   approvalVars, syncVars, guardVars, retryVars, cacheVars, sweepVars, lockVars>>

\* _handle_tp_levels, lines 472-498: the partial exit of level i; lvl["executed"],
\* pos["qty"] and pos["trailing"] are assigned in the record the caller holds
AlTpPartial(i, price) ==
    /\ al.pc \in {"held", "changed"}
    /\ positions[al.s] # NoPos
    /\ i < Len(positions[al.s].tp_levels)
    /\ ~positions[al.s].tp_levels[i].executed
    /\ \A k \in 1..(i - 1) : positions[al.s].tp_levels[k].executed
    /\ RatLe(positions[al.s].tp_levels[i].price, RatInt(price))
    /\ TpSellQty(positions[al.s], positions[al.s].tp_levels[i]) > 0
    /\ LET pos == positions[al.s]
           lvl == pos.tp_levels[i]
           c1 == CreateLimitSell(Ctx(<<>>), al.s, TpSellQty(pos, lvl), price)
       IN EgEffects([Fired(c1, al.s, i) EXCEPT
                        !.pm[al.s] = TpSoldPos(pos, i, lvl, TpSellQty(pos, lvl), price),
                        !.op = "tp_partial", !.cause = "ok"])
    /\ al' = [al EXCEPT !.pc = "changed"]
    /\ UNCHANGED <<approval_queue, stPc, savePre, crashAt, stLast, fills, egCfg, now,
                   rateVars, riskVars, breakerVars, approvalVars, syncVars, guardVars,
                   retryVars, cacheVars, sweepVars, lockVars>>

\* _handle_tp_levels, lines 506-508: self.pm.update_position(symbol, pos)
AlUpdatePosition ==
    /\ al.pc = "changed"
    /\ EgEffects([PmUpdatePosition(Ctx(<<>>), al.s, positions[al.s])
                     EXCEPT !.op = "update_position", !.ret = TRUE])
    /\ al' = AliasIdle
    /\ UNCHANGED <<approval_queue, stPc, savePre, crashAt, stLast, fills, egCfg, now,
                   rateVars, riskVars, breakerVars, approvalVars, syncVars, guardVars,
                   retryVars, cacheVars, sweepVars, lockVars>>

\* the caller changed nothing and lets the record go
AlRelease ==
    /\ al.pc = "held"
    /\ al' = AliasIdle
    /\ UNCHANGED <<now, rateVars, storeVars, riskVars, engineVars, breakerVars,
                   approvalVars, syncVars, guardVars, retryVars, cacheVars, sweepVars, lockVars>>

\* the Telegram thread meanwhile: set_sl_hold(symbol), which ends in _save()
AlSetSlHold(s, hours) ==
    /\ sl_hold_until[s] = NoHold
    /\ EgEffects([PmSave([Ctx(<<>>) EXCEPT !.holds[s] = now + hours])
                     EXCEPT !.op = "set_sl_hold", !.ret = TRUE])
    /\ al' = al
    /\ UNCHANGED <<approval_queue, stPc, savePre, crashAt, stLast, fills, egCfg, now,
                   rateVars, riskVars, breakerVars, approvalVars, syncVars, guardVars,
                   retryVars, cacheVars, sweepVars, lockVars>>

AliasInit == al = AliasIdle

AliasPrices == {107, 125}

NextAlias ==
    \/ \E s \in Symbols, krw \in RequestAmounts, i \in DcaBuyInputs :
          /\ al.pc = "idle"
          /\ Faults(i) = {}
          /\ EgExecuteBuy(s, krw, i.ai, i.b, i.price, i.script)
    \/ \E s \in Symbols, via \in {"get_position", "get_all_positions"} : AlGet(s, via)
    \/ \E i \in 1..2, price \in AliasPrices : AlTpPartial(i, price)
    \/ AlUpdatePosition
    \/ AlRelease
    \/ \E s \in Symbols, hours \in HoldHours : AlSetSlHold(s, hours)

(***************************************************************************)
(* The locks: bot/core/position_manager.py, bot/core/circuit_breaker.py,   *)
(* bot/api/rate_limiter.py, bot/core/risk_manager.py                       *)
(* Each of the four objects has one threading.Lock, which is not           *)
(* reentrant: a thread that acquires the lock it holds waits for ever.     *)
(* An operation is the sequence of acquires and releases its code makes,   *)
(* the calls made inside a `with self.lock:` block included. main.py runs  *)
(* the signal loop (with the sweep) and the Telegram bot on threads of     *)
(* their own, price_feed.py the price updater; any thread may call any     *)
(* operation.                                                              *)
(***************************************************************************)
Locks == {"pm", "cb", "rl", "rm"}
LockThreads == {"signal", "telegram", "price"}
Acq(l) == [op |-> "acquire", lock |-> l]
Rel(l) == [op |-> "release", lock |-> l]

\* PositionManager._save, called inside every writing lock section of the
\* store: it writes the file and takes no lock
SaveSectionLocking == <<Acq("pm"), Rel("pm")>>
SaveSection == <<>>

\* `with self.lock:` of the PositionManager around body
PmLocked(body) == <<Acq("pm")>> \o body \o <<Rel("pm")>>

\* CircuitBreaker._trip and _reset_internal call alert_callback inside the
\* lock section; main.py sets it to TelegramBot.send_message_sync, which hands
\* a coroutine to the event loop and takes none of the locks
AlertSection == <<>>

\* PositionManager: the readers (has_position, get_position,
\* get_all_positions), the writers (open_position, add_dca, update_position,
\* close_position, set_sl_hold, is_sl_held, ... : the section ends in _save)
\* and sync_with_exchange (_add_synced_position, the deletion of a position,
\* the final save: three sections one after the other)
PmProgram(op) ==
    CASE op = "get_all_positions" -> PmLocked(<<>>)
      [] op = "update_position" -> PmLocked(SaveSection)
      [] op = "sync_with_exchange" ->
            PmLocked(SaveSection) \o PmLocked(<<>>) \o PmLocked(SaveSection)

\* CircuitBreaker: record_trade, record_api_failure, can_trade, reset
CbProgram(op) == <<Acq("cb")>> \o AlertSection \o <<Rel("cb")>>

\* RateLimiter.acquire(wait=True): the section that looks at the window, then
\* after the sleep the recursive acquire(wait=False), outside the first section
RlProgram(op) == <<Acq("rl"), Rel("rl"), Acq("rl"), Rel("rl")>>

\* RiskManager: calculate_positions_value calls pm.get_all_positions() inside
\* its lock section; get_risk_summary runs check_limits, which does the same,
\* and then does it once more itself
RmProgram(op) ==
    CASE op = "calculate_positions_value" ->
            <<Acq("rm")>> \o PmProgram("get_all_positions") \o <<Rel("rm")>>
      [] op = "get_risk_summary" ->
            <<Acq("rm")>> \o PmProgram("get_all_positions") \o <<Rel("rm")>>
            \o <<Acq("rm")>> \o PmProgram("get_all_positions") \o <<Rel("rm")>>

PmOps == {"get_all_positions", "update_position", "sync_with_exchange"}
RmOps == {"calculate_positions_value", "get_risk_summary"}
LockOps == PmOps \cup RmOps \cup {"record_trade", "acquire"}

Program(op) ==
    IF op \in PmOps THEN PmProgram(op)
    ELSE IF op \in RmOps THEN RmProgram(op)
    ELSE IF op = "record_trade" THEN CbProgram(op)
    ELSE RlProgram(op)

LockIdle ==
    [holder |-> [l \in Locks |-> NoThread],
     todo |-> [t \in LockThreads |-> <<>>],
     order |-> {}]

\* the locks thread t holds
HeldBy(t) == {l \in Locks : lk.holder[l] = t}

LockFrame ==
    UNCHANGED <<now, rateVars, storeVars, riskVars, engineVars, breakerVars,
                approvalVars, syncVars, guardVars, retryVars, cacheVars, sweepVars,
                aliasVars>>

\* thread t calls an operation
LkCall(t, op) ==
    /\ lk.todo[t] = <<>>
    /\ lk' = [lk EXCEPT !.todo[t] = Program(op)]
    /\ LockFrame

\* Lock.acquire(): the thread goes on when the lock is free, whoever holds it.
\* order records which lock was taken while which other lock was held.
LkAcquire(t) ==
    /\ lk.todo[t] # <<>>
    /\ Head(lk.todo[t]).op = "acquire"
    /\ lk.holder[Head(lk.todo[t]).lock] = NoThread
    /\ lk' = [lk EXCEPT !.holder[Head(lk.todo[t]).lock] = t,
                        !.todo[t] = Tail(@),
                        !.order = @ \cup {<<h, Head(lk.todo[t]).lock>> : h \in HeldBy(t)}]
    /\ LockFrame

\* the end of the `with` block
LkRelease(t) ==
    /\ lk.todo[t] # <<>>
    /\ Head(lk.todo[t]).op = "release"
    /\ lk' = [lk EXCEPT !.holder[Head(lk.todo[t]).lock] = NoThread,
                        !.todo[t] = Tail(@)]
    /\ LockFrame

LockInit == lk = LockIdle
MoreInit == SweepInit /\ AliasInit /\ LockInit

NextLocks ==
    \/ \E t \in LockThreads, op \in LockOps : LkCall(t, op)
    \/ \E t \in LockThreads : LkAcquire(t)
    \/ \E t \in LockThreads : LkRelease(t)

(***************************************************************************)
(* Specifications                                                          *)
(***************************************************************************)
Init ==
    /\ now = 0
    /\ RateInit("RateLimiter")
    /\ StoreInit
    /\ RiskInit(DefaultRiskEnv)
    /\ EngineInit(DefaultEngineConfig)
    /\ BreakerInit(DefaultBreakerConfig)
    /\ ApprovalInit
    /\ SyncInit
    /\ GuardInit(DefaultGuardConfig)
    /\ RetryInit
    /\ CacheInit
    /\ MoreInit

InitRate ==
    /\ now = 0
    /\ \E kind \in LimiterKinds : RateInit(kind)
    /\ StoreInit
    /\ RiskInit(DefaultRiskEnv)
    /\ EngineInit(DefaultEngineConfig)
    /\ BreakerInit(DefaultBreakerConfig)
    /\ ApprovalInit
    /\ SyncInit
    /\ GuardInit(DefaultGuardConfig)
    /\ RetryInit
    /\ CacheInit
    /\ MoreInit

InitRisk ==
    /\ now = 0
    /\ RateInit("RateLimiter")
    /\ StoreInit
    /\ \E env \in RiskEnvs : env.krw_free <= env.krw_total /\ RiskInit(env)
    /\ EngineInit(DefaultEngineConfig)
    /\ BreakerInit(DefaultBreakerConfig)
    /\ ApprovalInit
    /\ SyncInit
    /\ GuardInit(DefaultGuardConfig)
    /\ RetryInit
    /\ CacheInit
    /\ MoreInit

InitEngine ==
    /\ now = 0
    /\ RateInit("RateLimiter")
    /\ StoreInit
    /\ RiskInit(DefaultRiskEnv)
    /\ \E cfg \in EngineConfigs : EngineInit(cfg)
    /\ BreakerInit(DefaultBreakerConfig)
    /\ ApprovalInit
    /\ SyncInit
    /\ GuardInit(DefaultGuardConfig)
    /\ RetryInit
    /\ CacheInit
    /\ MoreInit

InitBreaker ==
    /\ now = 0
    /\ RateInit("RateLimiter")
    /\ StoreInit
    /\ RiskInit(DefaultRiskEnv)
    /\ EngineInit(DefaultEngineConfig)
    /\ \E cfg \in BreakerConfigs : BreakerInit(cfg)
    /\ ApprovalInit
    /\ SyncInit
    /\ GuardInit(DefaultGuardConfig)
    /\ RetryInit
    /\ CacheInit
    /\ MoreInit

InitSync ==
    /\ now = 0
    /\ RateInit("RateLimiter")
    /\ StoreInit
    /\ RiskInit(DefaultRiskEnv)
    /\ EngineInit([mode |-> "AUTO", aggressive |-> FALSE, max_buys |-> MaxBuys])
    /\ BreakerInit(DefaultBreakerConfig)
    /\ ApprovalInit
    /\ SyncInit
    /\ GuardInit(DefaultGuardConfig)
    /\ RetryInit
    /\ CacheInit
    /\ MoreInit

InitApproval ==
    /\ now = 0
    /\ RateInit("RateLimiter")
    /\ StoreInit
    /\ RiskInit(DefaultRiskEnv)
    /\ EngineInit(DefaultEngineConfig)
    /\ BreakerInit(DefaultBreakerConfig)
    /\ ApprovalInit
    /\ SyncInit
    /\ GuardInit(DefaultGuardConfig)
    /\ RetryInit
    /\ CacheInit
    /\ MoreInit

InitDca ==
    /\ now = 0
    /\ RateInit("RateLimiter")
    /\ StoreInit
    /\ RiskInit(DefaultRiskEnv)
    /\ \E aggressive \in BOOLEAN :
          EngineInit([mode |-> "AUTO", aggressive |-> aggressive, max_buys |-> MaxDcaBuys])
    /\ BreakerInit(DefaultBreakerConfig)
    /\ ApprovalInit
    /\ SyncInit
    /\ GuardInit(DefaultGuardConfig)
    /\ RetryInit
    /\ CacheInit
    /\ MoreInit

InitGuard ==
    /\ now = 0
    /\ RateInit("RateLimiter")
    /\ StoreInit
    /\ RiskInit(DefaultRiskEnv)
    /\ EngineInit(DefaultEngineConfig)
    /\ BreakerInit(DefaultBreakerConfig)
    /\ ApprovalInit
    /\ SyncInit
    /\ \E cfg \in GuardConfigs : cfg.utc_offset = 0 /\ GuardInit(cfg)
    /\ RetryInit
    /\ CacheInit
    /\ MoreInit

InitDaily ==
    /\ now = 0
    /\ RateInit("RateLimiter")
    /\ StoreInit
    /\ RiskInit(DefaultRiskEnv)
    /\ EngineInit(DefaultEngineConfig)
    /\ BreakerInit(DefaultBreakerConfig)
    /\ ApprovalInit
    /\ SyncInit
    /\ \E cfg \in GuardConfigs : GuardInit(cfg)
    /\ RetryInit
    /\ CacheInit
    /\ MoreInit

InitSweep ==
    /\ now = 0
    /\ RateInit("RateLimiter")
    /\ \E r \in LoadedRecords :
          /\ positions = [EmptyPositions EXCEPT ![LoadedSymbol] = r]
          /\ fs = [durable |-> Snapshot(positions, EmptyHolds), tmp |-> NoFile]
    /\ sl_hold_until = EmptyHolds
    /\ stPc = "idle"
    /\ savePre = NoFile
    /\ crashAt = "none"
    /\ stLast = [op |-> "none", ret |-> TRUE]
    /\ fills = [s \in Symbols |-> <<>>]
    /\ RiskInit(DefaultRiskEnv)
    /\ EngineInit([mode |-> "AUTO", aggressive |-> FALSE, max_buys |-> 1])
    /\ BreakerInit(DefaultBreakerConfig)
    /\ ApprovalInit
    /\ SyncInit
    /\ GuardInit(DefaultGuardConfig)
    /\ RetryInit
    /\ CacheInit
    /\ MoreInit

SpecRate == InitRate /\ [][NextRate]_vars
SpecStore == Init /\ [][NextStore]_vars
SpecHold == Init /\ [][NextHold]_vars
SpecRisk == InitRisk /\ [][NextRisk]_vars
SpecEngine == InitEngine /\ [][NextEngine]_vars
SpecBreaker == InitBreaker /\ [][NextBreaker]_vars
SpecApproval == InitApproval /\ [][NextApproval]_vars
SpecExpiry ==
    InitApproval /\ [][NextExpiry]_vars
        /\ WF_vars(ApTick) /\ WF_vars(ApExpire(Queued(tgSell))) /\ WF_vars(ApHandlerStep)
SpecSync == InitSync /\ [][NextSync]_vars
SpecDca == InitDca /\ [][NextDca]_vars
SpecGuard == InitGuard /\ [][NextGuard]_vars
SpecDaily == InitDaily /\ [][NextDaily]_vars
SpecRetry == Init /\ [][NextRetry]_vars /\ WF_vars(RtStep)
SpecCache == Init /\ [][NextCache]_vars
SpecSweep == InitSweep /\ [][NextSweep]_vars
SpecAlias == InitDca /\ [][NextAlias]_vars
SpecLocks == Init /\ [][NextLocks]_vars

(***************************************************************************)
(* C9: on one rate limiter, under any interleaving of acquire /            *)
(* wait_if_needed calls, the number of granted calls whose recorded        *)
(* timestamps lie in any interval of length window_seconds never exceeds   *)
(* max_calls.                                                              *)
(***************************************************************************)
GrantsInWindow(a) == SumOver(rlGranted, {x \in 0..MaxTime : a <= x /\ x <= a + WindowSec})

C9_WindowNeverExceedsMaxCalls ==
    \A a \in 0..MaxTime : GrantsInWindow(a) <= MaxCalls

C9_Witness ==
    /\ \E a \in 0..MaxTime : GrantsInWindow(a) = MaxCalls
    /\ \E x \in 0..MaxTime : x > WindowSec /\ rlGranted[x] > 0
    /\ \E t \in Threads : rlRet[t] = "false"

(***************************************************************************)
(* C10: acquire(wait=true) on a full window blocks until the oldest        *)
(* timestamp has left the window, then records a timestamp and returns     *)
(* true; it never returns false, also with concurrent callers.             *)
(***************************************************************************)
C10_WaitingAcquireNeverFalse ==
    \A t \in Threads :
        (rlKind = "RateLimiter" /\ rlPc[t] = "done" /\ rlWaitArg[t]) => rlRet[t] = "true"

(***************************************************************************)
(* C4: after open_position(symbol, q0, p0) and any sequence of             *)
(* add_dca(symbol, qi, pi), entry_price is the fill-volume-weighted        *)
(* average of all fills, qty is the sum of the fill quantities and         *)
(* dca_stage is the number of add_dca calls; 10 @ 100 then 5 @ 70 gives    *)
(* entry_price 90 and dca_stage 1.                                         *)
(***************************************************************************)
RECURSIVE FillQty(_)
FillQty(fl) == IF fl = <<>> THEN 0 ELSE Head(fl).qty + FillQty(Tail(fl))

RECURSIVE FillCost(_)
FillCost(fl) == IF fl = <<>> THEN 0 ELSE Head(fl).qty * Head(fl).price + FillCost(Tail(fl))

C4_EntryPriceIsVolumeWeightedAverage ==
    \A s \in Symbols :
        (positions[s] # NoPos /\ fills[s] # <<>>) =>
            /\ positions[s].entry_price = Rat(FillCost(fills[s]), FillQty(fills[s]))
            /\ positions[s].qty = FillQty(fills[s])
            /\ positions[s].dca_stage = Len(fills[s]) - 1
            /\ (fills[s] = <<[qty |-> 10, price |-> 100], [qty |-> 5, price |-> 70]>>
                  => positions[s].entry_price = RatInt(90) /\ positions[s].dca_stage = 1)

C4_Witness ==
    /\ \E s \in Symbols :
          /\ fills[s] = <<[qty |-> 10, price |-> 100], [qty |-> 5, price |-> 70]>>
          /\ positions[s] # NoPos
          /\ positions[s].entry_price = RatInt(90)
    /\ \E s \in Symbols :
          /\ fills[s] = <<[qty |-> 10, price |-> 100], [qty |-> 10, price |-> 100],
                         [qty |-> 5, price |-> 70]>>
          /\ positions[s] # NoPos
          /\ positions[s].dca_stage = 2
          /\ positions[s].entry_price = RatInt(94)

(***************************************************************************)
(* C5: a crash at any point of _save leaves the durable file holding       *)
(* either the complete snapshot from before the save or the complete new   *)
(* snapshot; a loader never reads a partially written durable file.        *)
(***************************************************************************)
C5_DurableFileIsCompleteSnapshot ==
    /\ fs.durable # Partial
    /\ \/ fs.durable = savePre
       \/ fs.durable = Snapshot(positions, sl_hold_until)
    /\ stLast.op = "restart" =>
          /\ positions = Load(fs.durable)
          /\ sl_hold_until = LoadSlHold(fs.durable)

C5_Witness ==
    /\ crashAt = "save_dump"
    /\ fs.tmp = Partial
    /\ fs.durable # NoFile
    /\ \E s \in Symbols : positions[s] # NoPos

(***************************************************************************)
(* C6: every mutation of the position map and of the sl-hold map is        *)
(* followed, before the lock is released, by a full-state write: after     *)
(* every completed store operation the durable file equals the in-memory   *)
(* state.                                                                  *)
(***************************************************************************)
C6_DurableEqualsMemoryWhenIdle ==
    stPc = "idle" =>
        /\ Load(fs.durable) = positions
        /\ LoadSlHold(fs.durable) = sl_hold_until

(***************************************************************************)
(* C8: for any positive total capital, any holding of the symbol and any   *)
(* weight hint and multipliers, get_trade_amount never returns a size      *)
(* that pushes the symbol's post-trade weight (value of the holding plus   *)
(* the returned amount, over total capital) above POSITION_WEIGHT_CAP.     *)
(***************************************************************************)
PostTradeWithinCap ==
    RatLe(RatAdd(RatInt(rmEnv.qty * rmEnv.price), rmOut.amount),
          RatMul(POSITION_WEIGHT_CAP, GetTotalCapital(rmEnv, TRUE)))

C8_TradeAmountKeepsWeightUnderCap ==
    (rmOut # NoCall /\ RatLt(RatInt(0), rmOut.amount)) => PostTradeWithinCap

(***************************************************************************)
(* C1: every sell order the engine submits (the full exit of market_sell,  *)
(* the partial take-profit exits of the sweep) takes its quantity from the *)
(* exchange balance fetched for that sell, so the submitted quantity never *)
(* exceeds the exchange balance.                                           *)
(***************************************************************************)
C1_SellQuantityWithinExchangeBalance ==
    ~egLast.oversell

(***************************************************************************)
(* C2: a retried order submission never executes twice: one call of        *)
(* create_limit_buy or create_limit_sell, retries included, places at most *)
(* one order at the exchange.                                              *)
(***************************************************************************)
C2_RetryNeverExecutesTwice ==
    ~egLast.dup

(***************************************************************************)
(* C3: when market_buy, market_sell or dca_buy ends without an order       *)
(* having reached the exchange (price lookup failed, amount below the      *)
(* minimum, balance lookup failed, submission raised or returned no        *)
(* response), it reports failure and leaves the position map unchanged.    *)
(***************************************************************************)
FailureCauses ==
    {"price_failed", "below_min", "balance_failed", "submit_raised", "no_response"}

C3_FailurePathsReportFailure ==
    (/\ egLast.op \in {"market_buy", "market_sell", "dca_buy"}
     /\ egLast.cause \in FailureCauses
     /\ egLast.accepted = 0)
        => (~egLast.ret /\ ~egLast.changed)

(***************************************************************************)
(* C7: open_position for a symbol that already has a position leaves the   *)
(* existing record unchanged: no buy path (execute in aggressive mode, an  *)
(* approved buy request) replaces the record of an open position.          *)
(* egLast.reopened: the call reached open_position for a symbol that had a *)
(* position.                                                               *)
(***************************************************************************)
C7_BuyNeverReplacesOpenPosition ==
    egLast.reopened => ~egLast.changed

(***************************************************************************)
(* cbLast.tripped_at is the time at which the breaker left the armed state *)
(* and cbLast.elapsed the time from then to the call.                      *)
(*                                                                         *)
(* C11: once the breaker has tripped, every can_trade() call made before   *)
(* cooldown_minutes have elapsed since the trip, with no reset in between, *)
(* returns false; after a reset, or after the can_trade() call that finds  *)
(* the cooldown elapsed, the breaker is armed and its counters             *)
(* (consecutive_losses, api_failures) and its trip record are cleared.     *)
(***************************************************************************)
CbRearmed ==
    \/ cbLast.op = "reset" /\ cbLast.was_tripped
    \/ cbLast.op = "can_trade" /\ cbLast.was_tripped /\ cbLast.ret

CbLossesHit == cb.consecutive_losses >= cbCfg.max_consecutive_losses
CbDailyHit == cb.daily_pnl_pct <= -cbCfg.max_daily_loss_pct
CbApiHit == cb.api_failures >= cbCfg.max_api_failures

C12_TripExactlyOnFirstCondition ==
    (/\ cbLast.op \in {"record_trade", "record_api_failure"}
     /\ ~cbLast.was_tripped)
        => /\ cb.is_tripped = (CbLossesHit \/ CbDailyHit \/ CbApiHit)
           /\ cb.trip_reason.kind =
                 IF CbLossesHit THEN "consecutive_losses"
                 ELSE IF CbDailyHit THEN "daily_loss"
                 ELSE IF CbApiHit THEN "api_failures"
                 ELSE "none"
           /\ cb.is_tripped => cb.trip_time = cbLast.tripped_at

C12_Witness ==
    /\ cbLast.op = "record_trade"
    /\ ~cbLast.was_tripped
    /\ CbLossesHit /\ CbDailyHit
    /\ cb.is_tripped
    /\ cb.trip_reason.kind = "consecutive_losses"

(***************************************************************************)
(* C13: with cooldown_minutes > 0, a can_trade() call on a tripped breaker *)
(* made at or after trip time + cooldown_minutes returns true and leaves   *)
(* the breaker armed; and a breaker whose run of losing trades has reached *)
(* max_consecutive_losses is tripped.                                      *)
(***************************************************************************)
C13_CooldownRearms ==
    /\ (/\ cbLast.op = "can_trade"
        /\ cbLast.was_tripped
        /\ cbCfg.cooldown_minutes > 0
        /\ cbLast.elapsed >= cbCfg.cooldown_minutes)
           => (cbLast.ret /\ ~cb.is_tripped)
    /\ CbLossesHit => cb.is_tripped

C13_Witness ==
    /\ cbLast.op = "can_trade"
    /\ cbLast.was_tripped
    /\ cbLast.was_reason = "consecutive_losses"
    /\ cbLast.elapsed = cbCfg.cooldown_minutes
    /\ cbLast.ret
    /\ ~cb.is_tripped

(***************************************************************************)
(* C14: the portions of the take-profit ladder of an open position sum to  *)
(* 1; the exchange accepts at most one sell order for each level of the    *)
(* ladder of a position; after a sweep that handled the ladder at a price  *)
(* at or above the last level's price, the position is closed.             *)
(***************************************************************************)
TpPortionSum(levels) ==
    RatAdd(RatAdd(levels[1].portion, levels[2].portion), levels[3].portion)

C14_TpLadderFiresOnceAndCloses ==
    \A s \in EngineSymbols :
        /\ positions[s] # NoPos => TpPortionSum(positions[s].tp_levels) = RatInt(1)
        /\ \A i \in 1..3 : tpFired[s][i] <= 1
        /\ egLast.tp_last => positions[s] = NoPos

(***************************************************************************)
(* C15: in a sweep the trailing stop triggers exactly when the position's  *)
(* trailing record was armed when the sweep began and the price is at or   *)
(* below highest_price * (1 - offset); the record of a position just       *)
(* opened is not armed; while a record stays armed no handler lowers its   *)
(* highest_price.                                                          *)
(* egLast.trail is the result of check_trailing_stop in the last sweep     *)
(* ("none": not called).                                                   *)
(***************************************************************************)
C15_TrailingOnlyWhenArmed ==
    /\ egLast.trail = "stop" => egLast.trail_due
    /\ egLast.trail = "no" => ~egLast.trail_due
    /\ (egLast.op = "market_buy" /\ egLast.ret)
          => \A s \in EngineSymbols : ~Armed(positions[s])
    /\ ~egLast.hi_dropped

C15_Witness ==
    /\ egLast.trail = "stop"
    /\ egLast.trail_due
    /\ egLast.op = "market_sell"
    /\ egLast.ret

\* C16: one check_positions sweep of a symbol evaluates the hard stop price, the
\* AI stop ratio, the take-profit ladder, the trailing stop and the DCA step in
\* that order; once a stop or a full close fired no later step runs, and a sweep
\* in which a stop or the trailing stop fired enters no DCA step and buys nothing.
SweepStops == {"sl", "ai_sl", "trail", "legacy_tp", "legacy_ai_tp", "tp_close"}
C17_LossSellRequestsOnce ==
    /\ apLast.loss => ~apLast.ordered
    /\ (apLast.loss /\ apLast.cause \notin {"approval_pending", "sl_held"}) => apLast.sent
    /\ \A s \in Symbols : Cardinality(Prompts(tgSell, s, "engine")) <= 1

\* C18: handling the approve or the reject callback of a stop-loss request or of
\* a strategy-sell request leaves the symbol out of the pending-approval guard,
\* and handling the callback of a request that is no longer queued changes nothing.
C18_CallbackClearsGuard ==
    /\ (apLast.op \in SellCallbacks /\ apLast.found /\ apLast.alone) => ~apLast.pend_after
    /\ (apLast.op \in SellCallbacks /\ ~apLast.found)
          => ~apLast.changed /\ ~apLast.ordered /\ ~apLast.sent

\* C19: after sync_with_exchange every symbol held on the exchange and absent
\* locally has a new position with the default TP/SL whose entry price is the
\* average buy price or, without one, the current price; every symbol present
\* only locally is deleted; the added, removed and matched lists of the report
\* are pairwise disjoint and cover exactly the exchange and the local symbols.
C19_SyncReconciles ==
    syLast.op = "sync" =>
        /\ syLast.held \ syLast.local \subseteq syLast.fresh
        /\ syLast.local \ syLast.held \subseteq syLast.gone
        /\ syLast.added \cap syLast.removed = {}
        /\ syLast.added \cap syLast.matched = {}
        /\ syLast.removed \cap syLast.matched = {}
        /\ syLast.added \cup syLast.removed \cup syLast.matched = syLast.held \cup syLast.local

\* C20: set_sl_hold(symbol, hours) puts the expiry now + hours into the map;
\* from then on is_sl_held(symbol) returns true at every time before the expiry
\* and false from the expiry on, and the first read that finds the hold elapsed
\* deletes it. A hold that has not expired leaves the map only through a new
\* set_sl_hold, clear_sl_hold or the loss of a write that was in progress, and
\* while no write is in progress it is in the durable file.
Unexpired(s) == sl_hold_until[s] # NoHold /\ now < sl_hold_until[s]
HoldDurableWhenIdle ==
    StoreIdle => \A s \in Symbols :
                    Unexpired(s) => LoadSlHold(fs.durable)[s] = sl_hold_until[s]
HoldStep(s) ==
    /\ \A h \in HoldHours : StSetSlHold(s, h) => sl_hold_until'[s] = now + h
    /\ StIsSlHeld(s) =>
          /\ stLast'.ret = Unexpired(s)
          /\ sl_hold_until'[s] = IF Unexpired(s) THEN sl_hold_until[s] ELSE NoHold
    /\ StGetSlHoldRemaining(s) =>
          sl_hold_until'[s] = IF Unexpired(s) THEN sl_hold_until[s] ELSE NoHold
    /\ StGetAllSlHolds =>
          sl_hold_until'[s] = IF Unexpired(s) THEN sl_hold_until[s] ELSE NoHold
    /\ (Unexpired(s) /\ sl_hold_until'[s] # sl_hold_until[s])
          => \/ \E h \in HoldHours : StSetSlHold(s, h)
             \/ StClearSlHold(s)
             \/ Crash /\ ~StoreIdle
C20_HoldUntilExpiry == []HoldDurableWhenIdle /\ [][\A s \in Symbols : HoldStep(s)]_vars

\* is_sl_held found an elapsed hold, returned false and deleted it
C20_Witness ==
    /\ stLast.op = "is_sl_held" /\ ~stLast.ret /\ stPc = "save_open"
    /\ \E s \in Symbols : LoadSlHold(fs.durable)[s] # NoHold /\ sl_hold_until[s] = NoHold
                          /\ now >= LoadSlHold(fs.durable)[s]

(***************************************************************************)
(* C21: add_dca and close_position called for a symbol that has no        *)
(* position return failure and change neither the in-memory position map  *)
(* nor the durable file: no write is started and the store stays idle.    *)
(***************************************************************************)
MissingPositionCall(s) ==
    /\ positions[s] = NoPos
    /\ \/ StClosePosition(s)
       \/ \E f \in FillInputs : StAddDca(s, f.qty, f.price)

StoreUntouched ==
    /\ positions' = positions
    /\ sl_hold_until' = sl_hold_until
    /\ fs' = fs
    /\ stPc' = "idle"

C21_MissingPositionFails ==
    [][/\ \A s \in Symbols :
            MissingPositionCall(s) =>
                /\ stLast'.op \in {"add_dca", "close_position"}
                /\ ~stLast'.ret
                /\ StoreUntouched
       /\ (stLast' # stLast /\ stLast'.op \in {"add_dca", "close_position"} /\ ~stLast'.ret)
            => StoreUntouched]_vars

\* a failed call while another symbol has a position that is in the file
C21_Witness ==
    /\ stLast.op \in {"add_dca", "close_position"}
    /\ ~stLast.ret
    /\ stPc = "idle"
    /\ \E s \in Symbols : positions[s] # NoPos
    /\ \E s \in Symbols : positions[s] = NoPos
    /\ fs.durable = Snapshot(positions, sl_hold_until)

(***************************************************************************)
(* C22: check_dca_limit rejects exactly when the position's dca_stage has  *)
(* reached MAX_DCA_COUNT; no position's dca_stage ever exceeds             *)
(* MAX_DCA_COUNT, and a sweep that finds a position at the limit submits   *)
(* no buy order.                                                           *)
(***************************************************************************)
AtDcaLimit(s) == positions[s] # NoPos /\ positions[s].dca_stage >= MAX_DCA_COUNT

DcaStageWithinLimit ==
    \A s \in Symbols : positions[s] # NoPos => positions[s].dca_stage <= MAX_DCA_COUNT

DcaLimitStep(s) ==
    /\ EgCheckDcaLimit(s) => (egLast'.ret <=> ~AtDcaLimit(s))
    /\ (AtDcaLimit(s) /\ \E i \in DcaSweepInputs : EgCheckPosition(s, i.b, i.price, i.script))
          => /\ exBuys' = exBuys
             /\ exBal'[s] <= exBal[s]
             /\ positions'[s] # NoPos => positions'[s].dca_stage = positions[s].dca_stage

C22_DcaNeverPastLimit ==
    []DcaStageWithinLimit /\ [][\A s \in EngineSymbols : DcaLimitStep(s)]_vars

\* a sweep refused the averaging-in order at the limit although the account
\* could pay for another order
C22_Witness ==
    /\ egLast.op = "dca_buy" /\ egLast.cause = "dca_limit"
    /\ \E s \in EngineSymbols : positions[s] # NoPos /\ positions[s].dca_stage = MAX_DCA_COUNT
    /\ exBuys < egCfg.max_buys

(***************************************************************************)
(* C23: check_daily_loss returns blocked exactly when                      *)
(* (daily_start_value - equity) / daily_start_value >= the daily loss      *)
(* limit (times 1.8 in aggressive mode), where daily_start_value is the    *)
(* equity of the first check of the current local date.                    *)
(***************************************************************************)
DayLossFraction == RatDiv(RatSub(rgHist.day_value, rgLast.current), rgHist.day_value)
DayLossLimit == IF rgCfg.aggressive THEN RatMul(DAILY_LOSS_LIMIT, Rat(18, 10))
                ELSE DAILY_LOSS_LIMIT

C23_DailyLossBlocksAtLimit ==
    rgLast.op = "check_daily_loss" =>
        (rgLast.status = "blocked" <=> RatLe(DayLossLimit, DayLossFraction))

(***************************************************************************)
(* C24: the tracked peak never decreases and is the highest equity a       *)
(* check_drawdown call has read; a call returns blocked exactly when       *)
(* (peak - current) / peak >= DRAWDOWN_LIMIT and warning when the drawdown *)
(* is at least 70 % of the limit but below it.                             *)
(***************************************************************************)
PeakNeverDecreases ==
    rg.peak_value # NoValue => (rg'.peak_value # NoValue /\ RatLe(rg.peak_value, rg'.peak_value))

SeenDrawdown == RatDiv(RatSub(rgHist.max_seen, rgLast.current), rgHist.max_seen)

DrawdownStatusRight ==
    /\ rg.peak_value = rgHist.max_seen
    /\ rgLast.op = "check_drawdown" =>
          /\ rgLast.status = "blocked" <=> RatLe(DRAWDOWN_LIMIT, SeenDrawdown)
          /\ rgLast.status = "warning" <=>
                (/\ RatLe(RatMul(Rat(70, 100), DRAWDOWN_LIMIT), SeenDrawdown)
                 /\ RatLt(SeenDrawdown, DRAWDOWN_LIMIT))

C24_DrawdownPeakAndStatus == []DrawdownStatusRight /\ [][PeakNeverDecreases]_vars

\* a warning below a peak that an earlier call has set
C24_Witness ==
    /\ rgLast.op = "check_drawdown" /\ rgLast.status = "warning"
    /\ rg.peak_value = RatInt(1000000)
    /\ rgLast.current = RatInt(930000)

(***************************************************************************)
(* C25: the consecutive-loss counter is the number of negative results     *)
(* registered since the last non-negative one, and check_loss_streak       *)
(* returns blocked exactly when the counter has reached the maximum (3, or *)
(* 5 in aggressive mode).                                                  *)
(***************************************************************************)
C25_LossStreakCounts ==
    /\ rg.loss_streak = rgHist.neg_run
    /\ rgLast.op = "check_loss_streak" =>
          (rgLast.status = "blocked" <=>
              rgHist.neg_run >= (IF rgCfg.aggressive THEN 5 ELSE 3))

\* blocked in aggressive mode, after five losing results in a row
C25_Witness ==
    /\ rgLast.op = "check_loss_streak" /\ rgLast.status = "blocked"
    /\ rgCfg.aggressive
    /\ rg.loss_streak = 5

(***************************************************************************)
(* C26: market_buy submits no order and opens no position when the         *)
(* dynamic size multiplier of the decision is <= 0, or when the amount     *)
(* after the multiplier and the clamp to the free balance is below         *)
(* MIN_ORDER_AMOUNT.                                                       *)
(***************************************************************************)
SizedAmount(krw, ai, b) ==
    RatMin(RatMul(RatInt(krw), RatMul(PositionBoost, DynamicPositionMultiplier(ai))),
           RatInt(b.free_krw))

BuyTooSmall(krw, ai, b) ==
    \/ RatLe(DynamicPositionMultiplier(ai), RatInt(0))
    \/ RatLt(SizedAmount(krw, ai, b), RatInt(MIN_ORDER_AMOUNT))

NothingBought ==
    /\ exBuys' = exBuys
    /\ exBal' = exBal
    /\ positions' = positions
    /\ fs' = fs
    /\ ~egLast'.ret
    /\ egLast'.accepted = 0

C26_SmallBuyPlacesNoOrder ==
    [][\A s \in EngineSymbols, krw \in TradeAmounts, i \in DcaBuyInputs :
          (BuyTooSmall(krw, i.ai, i.b) /\ EgExecuteBuy(s, krw, i.ai, i.b, i.price, i.script))
              => NothingBought]_vars

\* market_buy refused an amount below the minimum while the exchange still took
\* orders
C26_Witness ==
    /\ egLast.op = "market_buy" /\ egLast.cause = "below_min"
    /\ ~egLast.ret
    /\ exBuys < egCfg.max_buys

(***************************************************************************)
(* C27: the retry wrapper calls the wrapped function at most N + 1 times   *)
(* for N configured retries, returns the first successful result without   *)
(* any further call, doubles the delay after every failed attempt, waits   *)
(* longer when the error text matches a rate-limit signature, raises the   *)
(* last attempt's error after the last attempt has failed, and always      *)
(* terminates after a bounded total wait.                                  *)
(***************************************************************************)
RECURSIVE TwoTo(_)
TwoTo(k) == IF k = 0 THEN 1 ELSE 2 * TwoTo(k - 1)

RetryCallsBounded == rt.calls <= rt.cfg.max_retries + 1

\* a returned result is that of the one call that did not fail, the last made
RetryReturnsFirstSuccess ==
    (rt.pc = "done" /\ rt.out.kind = "return") =>
        /\ rt.out.value = rt.calls
        /\ Len(rtHist) = rt.calls - 1

\* after the result, no call until the wrapper is entered again
RetryNoCallAfterResult ==
    rt.pc = "done" => (rt'.calls = rt.calls \/ (rt'.pc = "attempt" /\ rt'.calls = 0))

\* the delay of the k-th failed attempt is base_delay * 2^(k-1)
RetryDelayDoubles ==
    /\ \A k \in DOMAIN rtHist : rtHist[k].delay = rt.cfg.base_delay * TwoTo(k - 1)
    /\ rt.pc = "attempt" => rt.delay = rt.cfg.base_delay * TwoTo(rt.attempt)

RetryRaisesLastError ==
    (rt.pc = "done" /\ rt.out.kind = "raise") =>
        /\ rt.calls = rt.cfg.max_retries + 1
        /\ rt.out.error = rtHist[Len(rtHist)].error
        /\ rt.out.error.id = rt.calls
        /\ Len(rtHist) = rt.calls

RetryWaitBounded ==
    /\ rt.waited <= rt.cfg.max_retries * rt.cfg.max_delay
    /\ rt.waited = SumOver([k \in 1..rt.attempt |-> rtHist[k].wait], 1..rt.attempt)

RetryTerminates == (rt.pc \in {"attempt", "sleep"}) ~> (rt.pc = "done")

\* a failed attempt that is followed by a wait
Waited(k) == k \in DOMAIN rtHist /\ k <= rt.cfg.max_retries

\* as stated: after a rate-limit error the wrapper waits longer than it waits
\* after another error at the same attempt
RateLimitWaitsLonger ==
    \A k \in DOMAIN rtHist :
        (Waited(k) /\ IsRateLimit(rtHist[k].error, rt.cfg)) =>
            rtHist[k].wait > Min(rtHist[k].delay, rt.cfg.max_delay)

\* every wait is cut to max_delay: the wait after a rate-limit error is the
\* doubled delay up to max_delay, longer than the other only when the delay
\* is below max_delay
RetryWaitsAsConfigured ==
    \A k \in DOMAIN rtHist :
        Waited(k) =>
            /\ ~IsRateLimit(rtHist[k].error, rt.cfg) =>
                   rtHist[k].wait = Min(rtHist[k].delay, rt.cfg.max_delay)
            /\ IsRateLimit(rtHist[k].error, rt.cfg) =>
                   /\ rtHist[k].wait = Min(rtHist[k].delay * rt.cfg.rate_limit_multiplier,
                                           rt.cfg.max_delay)
                   /\ rtHist[k].delay < rt.cfg.max_delay =>
                          rtHist[k].wait > Min(rtHist[k].delay, rt.cfg.max_delay)

\* C27 as stated
C27_RetryAsStated ==
    /\ [](/\ RetryCallsBounded /\ RetryReturnsFirstSuccess /\ RetryDelayDoubles
          /\ RetryRaisesLastError /\ RetryWaitBounded /\ RateLimitWaitsLonger)
    /\ [][RetryNoCallAfterResult]_vars
    /\ RetryTerminates

\* C27 with the waits as configured: at most N + 1 calls, the first successful
\* result returned with no further call, the delay doubled after every failed
\* attempt, each wait cut to max_delay, the last error raised, the total wait at
\* most N * max_delay, and every call of the wrapper ends
C27_RetryBounded ==
    /\ [](/\ RetryCallsBounded /\ RetryReturnsFirstSuccess /\ RetryDelayDoubles
          /\ RetryRaisesLastError /\ RetryWaitBounded /\ RetryWaitsAsConfigured)
    /\ [][RetryNoCallAfterResult]_vars
    /\ RetryTerminates

\* six calls have failed, the fourth and the fifth on a rate limit with the
\* wait at max_delay, and the last error is raised
C27_Witness ==
    /\ rt.pc = "done" /\ rt.out.kind = "raise" /\ rt.calls = 6
    /\ IsRateLimit(rtHist[4].error, rt.cfg) /\ IsRateLimit(rtHist[5].error, rt.cfg)
    /\ rtHist[4].wait = 16 /\ rtHist[5].wait = 16
    /\ ~IsRateLimit(rtHist[1].error, rt.cfg) /\ rtHist[1].wait = 1

(***************************************************************************)
(* C28: CacheManager.get never returns a value whose TTL has elapsed. A    *)
(* read after the entry's expiry evicts the entry, returns nothing and is  *)
(* counted as a miss and as an expiration; a read before expiry returns    *)
(* the value of the latest set for that key and is counted as a hit; under *)
(* any interleaving of get / set / delete / cleanup_expired from several   *)
(* threads.                                                                *)
(***************************************************************************)
\* the expiry of the latest set of the key: its time plus its ttl, or plus the
\* default ttl when none was given
LatestExpiry(key) ==
    ch.latest[key].at + (IF ch.latest[key].ttl = NoTtl THEN DefaultTtl ELSE ch.latest[key].ttl)

\* an entry in the cache is the latest set of its key
EntryIsLatestSet ==
    \A key \in CacheKeys :
        /\ ch.cache[key] # NoEntry <=> ch.latest[key] # NoSet
        /\ ch.cache[key].value = ch.latest[key].value

OtherKeysKept(key) == \A k \in CacheKeys \ {key} : ch'.cache[k] = ch.cache[k]

GetAfterExpiry(key) ==
    /\ ch'.cache[key] = NoEntry
    /\ chLast'.ret = "none"
    /\ ch'.stats = [ch.stats EXCEPT !.misses = @ + 1, !.expirations = @ + 1]

GetBeforeExpiry(key) ==
    /\ chLast'.ret = ch.latest[key].value
    /\ ch'.cache[key] # NoEntry
    /\ ch'.stats = [ch.stats EXCEPT !.hits = @ + 1]

GetRespectsTtl(th, key) ==
    ChGet(th, key) =>
        /\ (ch.cache[key] # NoEntry /\ now > LatestExpiry(key)) => GetAfterExpiry(key)
        /\ (ch.cache[key] # NoEntry /\ now <= LatestExpiry(key)) => GetBeforeExpiry(key)
        /\ ch.cache[key] = NoEntry => (chLast'.ret = "none" /\ ch'.cache[key] = NoEntry)
        /\ chLast'.ret # "none" => (ch.latest[key] # NoSet /\ now <= LatestExpiry(key))
        /\ OtherKeysKept(key)

C28_GetNeverReturnsExpired ==
    /\ []EntryIsLatestSet
    /\ [][\A th \in Threads, key \in CacheKeys : GetRespectsTtl(th, key)]_vars

\* a key was set twice; after the expiry of the second set a read found the
\* entry, evicted it and returned nothing
C28_Witness ==
    /\ chLast.op = "get" /\ chLast.ret = "none"
    /\ ch.stats = [hits |-> 0, misses |-> 1, sets |-> 2, deletes |-> 0, expirations |-> 1]
    /\ \A k \in CacheKeys : ch.cache[k] = NoEntry

(***************************************************************************)
(* C29: each trip of the circuit breaker records one reason and one        *)
(* timestamp and emits exactly one trip alert; while the breaker is        *)
(* tripped, further record_trade and record_api_failure events change      *)
(* neither the recorded reason nor the timestamp and emit no further trip  *)
(* alert.                                                                  *)
(***************************************************************************)
\* the last call took the breaker from armed to tripped
TrippedByLastCall == ~cbLast.was_tripped /\ cb.is_tripped

TripRecordsOnce ==
    /\ TrippedByLastCall =>
           /\ cbLast.op \in {"record_trade", "record_api_failure"}
           /\ cbLast.alerts = 1
    /\ ~TrippedByLastCall => cbLast.alerts = 0
    /\ cb.is_tripped <=> cb.trip_reason # NoReason
    /\ cb.is_tripped <=> cb.trip_time # NoTripTime

\* a record_trade or record_api_failure event
CbEvent == (\E r \in TradeResults : CbRecordTrade(r)) \/ CbRecordApiFailure

TrippedStaysAsRecorded ==
    (cb.is_tripped /\ CbEvent) =>
        /\ cb'.is_tripped
        /\ cb'.trip_reason = cb.trip_reason
        /\ cb'.trip_time = cb.trip_time
        /\ cbLast'.alerts = 0

\* a trip happens in an event, at the time of the event
TripStampedNow ==
    (~cb.is_tripped /\ cb'.is_tripped) =>
        /\ CbEvent
        /\ cb'.trip_time = now
        /\ cbLast'.alerts = 1

C29_TripRecordedAndAlertedOnce ==
    []TripRecordsOnce /\ [][TrippedStaysAsRecorded /\ TripStampedNow]_vars

\* the breaker tripped on API failures at an earlier time; a losing trade that
\* completes a run of losses was recorded afterwards and left the reason and the
\* timestamp as they were
C29_Witness ==
    /\ cbLast.op = "record_trade" /\ cbLast.was_tripped /\ cbLast.alerts = 0
    /\ cb.is_tripped /\ cb.trip_reason.kind = "api_failures"
    /\ cb.consecutive_losses >= cbCfg.max_consecutive_losses
    /\ cb.trip_time < now

(***************************************************************************)
(* C30: a successful API call lowers the breaker's api_failures counter by *)
(* exactly one when it is positive (it does not reset it to zero), never   *)
(* makes it negative and changes no other breaker state.                   *)
(***************************************************************************)
ApiSuccessLowersByOne ==
    CbRecordApiSuccess =>
        cb' = [cb EXCEPT !.api_failures = IF @ > 0 THEN @ - 1 ELSE @]

C30_ApiSuccessDecrements == [](cb.api_failures >= 0) /\ [][ApiSuccessLowersByOne]_vars

\* the breaker tripped on two API failures; after one success one is left
C30_Witness ==
    /\ cbLast.op = "record_api_success"
    /\ cb.is_tripped /\ cb.trip_reason = [kind |-> "api_failures", value |-> 2]
    /\ cb.api_failures = 1

\* ---------------------------------------------------------------------------
\* C31  A position whose entry price is missing, non-numeric or not positive,
\*      or whose evaluation raises, never aborts the check_positions sweep: at
\*      every point of a sweep the symbols already evaluated and the symbols
\*      still to come are together all the positions the sweep started with,
\*      so a finished sweep has evaluated every one of them.
\* ---------------------------------------------------------------------------
SweepPending == {sw.todo[k] : k \in DOMAIN sw.todo}

C31_SweepEvaluatesAll ==
    /\ sw.evaluated \cup SweepPending = sw.snap
    /\ sw.pc = "idle" => sw.evaluated = sw.snap

\* a finished sweep in which the loaded record raised and the other position
\* was evaluated after it
C31_Witness ==
    /\ sw.pc = "idle"
    /\ sw.caught = {LoadedSymbol}
    /\ sw.last = "XRP/KRW"
    /\ sw.evaluated = Symbols

\* ---------------------------------------------------------------------------
\* C32  In SEMI mode the approve callback of a stop-loss or of a strategy-sell
\*      request for a position that is at a loss submits the sell order and
\*      closes the position; it sends no further approval request and leaves
\*      the symbol out of the pending-approval guard.
\* ---------------------------------------------------------------------------
ApproveCallbacks == {"sl_approve", "sell_approve"}

C32_ApprovedExitSells ==
    (apLast.op \in ApproveCallbacks /\ apLast.found /\ apLast.loss) =>
        /\ apLast.ordered
        /\ positions[apLast.s] = NoPos
        /\ ~apLast.sent
        /\ ~apLast.pend_after

\* ---------------------------------------------------------------------------
\* C33  The buy order that execute('buy') submits through market_buy is worth
\*      no more than the amount get_trade_amount returned for the trade: the
\*      coins the exchange books for each accepted order of the call, at the
\*      order's price, cost at most that amount.
\* ---------------------------------------------------------------------------
C33_BuyOrderWithinTradeAmount ==
    [][\A s \in EngineSymbols, krw \in TradeAmounts, i \in DcaBuyInputs :
          EgExecuteBuy(s, krw, i.ai, i.b, i.price, i.script)
              => (exBal'[s] - exBal[s]) * i.price <= krw * egLast'.accepted]_vars

\* ---------------------------------------------------------------------------
\* C34  If the balance request of sync_with_exchange fails, or the ticker
\*      request for a coin of the balance fails (the client returns {}), the
\*      call deletes no local position because of it: every position is kept
\*      after a failed balance request, and the position of a coin whose
\*      ticker request failed is kept.
\* ---------------------------------------------------------------------------
FetchFailed(i, s) == ~i.ok \/ (exBal[s] > 0 /\ i.ticker[s] = 0)

C34_FailedFetchDeletesNothing ==
    [][\A i \in SyncInputs :
          SySync(i) => \A s \in Symbols :
                          (FetchFailed(i, s) /\ positions[s] # NoPos) => positions'[s] # NoPos]_vars

\* ---------------------------------------------------------------------------
\* C35  When the breaker has just been re-armed by the cooldown or by a reset,
\*      none of the three trip conditions holds on its counters, and a
\*      record_trade with pnl >= 0 and pnl_pct >= 0 that comes next leaves the
\*      breaker armed.
\* ---------------------------------------------------------------------------
NoTripConditionHolds == ~CbLossesHit /\ ~CbDailyHit /\ ~CbApiHit

NotAdverse(r) == r.pnl >= 0 /\ r.pnl_pct >= 0

C35_RearmedStaysArmed ==
    /\ [](CbRearmed => NoTripConditionHolds)
    /\ [][\A r \in TradeResults :
             (CbRearmed /\ NotAdverse(r) /\ CbRecordTrade(r)) => ~cb'.is_tripped]_vars

\* ---------------------------------------------------------------------------
\* C36  Every symbol in the pending-approval set is eventually removed from
\*      it: its request is approved, rejected, or it expires unanswered, and
\*      no symbol stays in the set forever.
\* ---------------------------------------------------------------------------
C36_PendingEventuallyCleared ==
    \A s \in EngineSymbols : (s \in sl_pending) ~> (s \notin sl_pending)

\* ---------------------------------------------------------------------------
\* C37  A record returned by get_position or get_all_positions is isolated
\*      from the store: while the caller holds it and has not yet called
\*      update_position with it, the record of the symbol in the store's
\*      memory and in the durable file are what they were when the record was
\*      returned, whatever the caller assigned to its fields.
\* ---------------------------------------------------------------------------
C37_ReturnedRecordIsolated ==
    al.pc \in {"held", "changed"} =>
        /\ positions[al.s] = al.got
        /\ DurableRecord(al.s) = al.disk

\* ---------------------------------------------------------------------------
\* C38  Every exchange call guarded by the rate limiter (rate_limited,
\*      BithumbAPI._check_rate_limit: rl.acquire(wait=True), then the call)
\*      begins only after an acquire that was granted, so the guarded calls
\*      that begin in any window of window_seconds never number more than
\*      max_calls, also with concurrent callers.
\* ---------------------------------------------------------------------------
\* the threads whose acquire(wait=True) has returned false: the guard does not
\* look at the result, their exchange call begins now
BeginsUngranted ==
    {t \in Threads : /\ rlKind = "RateLimiter"
                     /\ rlPc[t] = "done" /\ rlWaitArg[t] /\ rlRet[t] = "false"}

\* the guarded calls that begin in the window from a on, up to now
StartedInWindow(a) ==
    GrantsInWindow(a)
        + (IF a <= now /\ now <= a + WindowSec THEN Cardinality(BeginsUngranted) ELSE 0)

C38_GuardedCallsWithinLimit ==
    \A a \in 0..MaxTime : StartedInWindow(a) <= MaxCalls

\* ---------------------------------------------------------------------------
\* C39  In SEMI mode, while an SL hold is active for a symbol, no stop-type
\*      approval request (hard stop price, AI stop ratio, trailing stop) is
\*      sent for the symbol and no stop-type sell is submitted for it,
\*      whichever of the stop conditions holds.
\* ---------------------------------------------------------------------------
\* the hold of symbol s has been set and has not run out
HoldActive(s) == sl_hold_until[s] # NoHold /\ now < sl_hold_until[s]

\* the handler that has just returned has sent the stop-loss prompt of the sweep
StopRequestSent == apLast.op = "check_positions" /\ apLast.sent

\* the handler that has just returned has sold on an approved stop-loss prompt
StopSellSubmitted == apLast.op = "sl_approve" /\ apLast.ordered

C39_HoldSuppressesStops ==
    (egCfg.mode = "SEMI" /\ (StopRequestSent \/ StopSellSubmitted))
        => ~HoldActive(apLast.s)

\* ---------------------------------------------------------------------------
\* C40  Under any interleaving of the threads no thread deadlocks: no
\*      operation of the Position Store, the Circuit Breaker, the Rate Limiter
\*      or the Risk Manager tries to acquire its own non-reentrant lock while
\*      it holds it, and no two of these locks are taken in opposite orders.
\* ---------------------------------------------------------------------------
\* the lock thread t is about to acquire
Wanted(t) == Head(lk.todo[t]).lock

\* thread t stands at an acquire whose lock is held
Waiting(t) ==
    /\ lk.todo[t] # <<>>
    /\ Head(lk.todo[t]).op = "acquire"
    /\ lk.holder[Wanted(t)] # NoThread

\* every thread of S waits for a lock that a thread of S holds
Deadlocked(S) == S # {} /\ \A t \in S : Waiting(t) /\ lk.holder[Wanted(t)] \in S

C40_NoLockDeadlock ==
    /\ \A S \in SUBSET LockThreads : ~Deadlocked(S)
    /\ \A t \in LockThreads : Waiting(t) => lk.holder[Wanted(t)] # t
    /\ \A p \in lk.order : <<p[2], p[1]>> \notin lk.order

\* one thread is inside the risk manager's section and the store's section at
\* once while the two other threads wait, one for each of its locks
C40_Witness ==
    \E t, u, v \in LockThreads :
        /\ HeldBy(t) = {"rm", "pm"}
        /\ Waiting(u) /\ Wanted(u) = "pm"
        /\ Waiting(v) /\ Wanted(v) = "rm"
        /\ <<"rm", "pm">> \in lk.order

====
